---- MODULE Spec2Model ----
(***************************************************************************)
(* The board state engine of pirello: the reducer boardReducer             *)
(* (src/src/context/BoardReducer.ts) over a BoardState, with the per-card  *)
(* version/undo stack.  Every case of the reducer is a pure operator       *)
(* named as the action type it handles; the actions of the state machine   *)
(* dispatch them with inputs drawn from small sets.                        *)
(***************************************************************************)
EXTENDS Integers, Sequences, FiniteSets, TLC

VARIABLES
    state,   \* the BoardState held by useReducer
    now,     \* the wall clock read by new Date()
    gen,     \* how many ids generateId() has handed out, to each kind of entity
    last,    \* the action dispatched last: its type, the id it named, the
             \* card and the lane on display of that id as they were before
             \* the action, whether the state changed, and the action it undid
    valid,   \* whether every action dispatched so far named entities that exist
    numbered,\* the highest version number a snapshot of each card was ever given
    steps,   \* how many steps were taken
    savedState,      \* the persisted blob handed to normalizeState
    normalizations,  \* what normalizeState returned, pass after pass
    mount,           \* the load effect: whether it is active, how far
                     \* storage.load has come, its timers and their clock
    persist,         \* the save effect: saveTimeoutRef, the save timers that are
                     \* set, and the states handed to storage.save
    server           \* the storage service: its board_state table and the
                     \* response it sent last

vars == <<state, now, gen, last, valid, numbered, steps, savedState, normalizations,
          mount, persist, server>>

-----------------------------------------------------------------------------
(* Bounds of the model *)

MaxSteps == 4       \* steps of a run: dispatches and clock ticks
MaxPasses == 2      \* calls of normalizeState, each on the result of the one before
MaxElapsed == 5000  \* milliseconds a mount is followed for
MaxEdits == 2       \* dispatches of the user that a mount is followed for

FALLBACK_MS == 3000         \* the delay of the load effect's fallback timer
REQUEST_TIMEOUT_MS == 4000  \* the delay of fetchWithTimeout's abort timer
SAVE_DELAY_MS == 400        \* the delay of the save effect's timer

-----------------------------------------------------------------------------
(* Values *)

Null == "null"      \* null of a string-valued field
NullId == 0         \* null of an id-valued field

LastLaneError == "Cannot delete the last lane"
LastProjectError == "Cannot delete the last project"

\* the ids generateId() hands out are fresh: the n-th id handed out to a
\* project, to a lane, to a card, and to a version of a given card
ProjectIdOf(n) == 100 + n
LaneIdOf(n) == 200 + n
CardIdOf(n) == 300 + n
VersionIdOf(cardId, n) == <<cardId, n>>

\* ids that generateId() never handed out (a stale reference)
BogusProject == ProjectIdOf(99)
BogusLane == LaneIdOf(99)
BogusCard == CardIdOf(99)

DEFAULT_LANES ==
    << [title |-> "Todo", order |-> 0, cardIds |-> <<>>],
       [title |-> "Doing", order |-> 1, cardIds |-> <<>>],
       [title |-> "Done", order |-> 2, cardIds |-> <<>>] >>

NoProject == [id |-> NullId]     \* getActiveProject's null
NoProjects == <<>>               \* mapActiveProject's null
NoCard == [id |-> NullId]        \* cards[id] of an id that is not a key
NoLane == [id |-> NullId]        \* lanes.find(...) that finds nothing

-----------------------------------------------------------------------------
(* Helpers: JavaScript's object spread and array methods *)

\* { ...a, ...b }
Spread(a, b) ==
    [k \in (DOMAIN a) \cup (DOMAIN b) |-> IF k \in DOMAIN b THEN b[k] ELSE a[k]]

\* { ...map, [key]: value }
Put(map, key, value) ==
    [k \in (DOMAIN map) \cup {key} |-> IF k = key THEN value ELSE map[k]]

\* map[key], undefined rendered by the given default
Get(map, key, default) == IF key \in DOMAIN map THEN map[key] ELSE default

\* delete map[key], for every key of keys
Drop(map, keys) == [k \in (DOMAIN map) \ keys |-> map[k]]

\* seq.filter(x => x !== id)
Without(seq, id) == SelectSeq(seq, LAMBDA x : x # id)

\* an insertion that ignores the index
appendAlways(seq, start, item) == Append(seq, item)

\* seq.splice(start, 0, item), Array.prototype.splice's clamping of start
Splice(seq, start, item) ==
    LET n == Len(seq)
        k == IF start > n THEN n
             ELSE IF start < 0 THEN (IF n + start < 0 THEN 0 ELSE n + start)
             ELSE start
    IN  SubSeq(seq, 1, k) \o <<item>> \o SubSeq(seq, k + 1, n)

Range(seq) == {seq[i] : i \in 1..Len(seq)}

MaxOf(S) == CHOOSE x \in S : \A y \in S : y <= x

-----------------------------------------------------------------------------
(* BoardReducer.ts: helpers *)

createCardVersion(card, existingVersions, vid, t) ==
    LET nextVersion ==
            IF Len(existingVersions) > 0
            THEN MaxOf({existingVersions[i].version :
                           i \in 1..Len(existingVersions)}) + 1
            ELSE 1
    IN  [id |-> vid,
         cardId |-> card.id,
         version |-> nextVersion,
         data |-> [projectId |-> card.projectId,
                   title |-> card.title,
                   description |-> card.description,
                   type |-> card.type,
                   priority |-> card.priority,
                   dueDate |-> card.dueDate,
                   labels |-> card.labels,
                   assignee |-> card.assignee,
                   laneId |-> card.laneId,
                   order |-> card.order,
                   isDeleted |-> card.isDeleted,
                   createdAt |-> card.createdAt,
                   updatedAt |-> card.updatedAt],
         timestamp |-> t]

\* the three default lanes, with the fresh ids laneIds
createDefaultLanes(laneIds) ==
    [i \in 1..Len(DEFAULT_LANES) |-> Spread(DEFAULT_LANES[i], [id |-> laneIds[i]])]

getActiveProject(s) ==
    IF s.activeProjectId = NullId THEN NoProject
    ELSE IF \E i \in 1..Len(s.projects) : s.projects[i].id = s.activeProjectId
    THEN LET i == CHOOSE i \in 1..Len(s.projects) :
                     /\ s.projects[i].id = s.activeProjectId
                     /\ \A j \in 1..(i - 1) : s.projects[j].id # s.activeProjectId
         IN  s.projects[i]
    ELSE NoProject

mapActiveProject(s, updater(_)) ==
    LET activeProject == getActiveProject(s)
    IN  IF activeProject = NoProject THEN NoProjects
        ELSE [i \in 1..Len(s.projects) |->
                 IF s.projects[i].id = activeProject.id
                 THEN updater(activeProject)
                 ELSE s.projects[i]]

\* lanes.map(lane => f(lane))
MapLanes(lanes, f(_)) == [i \in 1..Len(lanes) |-> f(lanes[i])]

\* a map that updates every project
everyProject(s, lanes, t) ==
    [i \in 1..Len(s.projects) |->
        Spread(s.projects[i], [lanes |-> lanes, updatedAt |-> t])]

\* mapActiveProject(state, project => ({...project, lanes, updatedAt: now}))
\*     ?? state.projects
WithLanes(s, lanes, t) ==
    LET mapped == mapActiveProject(s,
                      LAMBDA project : Spread(project, [lanes |-> lanes, updatedAt |-> t]))
    IN  IF mapped = NoProjects THEN s.projects ELSE mapped

-----------------------------------------------------------------------------
(* BoardReducer.ts: the card actions *)

\* a return that reports the card as missing
cardNotFound(s) == Spread(s, [error |-> "Card not found"])

\* if (!existingCard) return state
unknownCard(s) == s

\* a history that grows at its head
prependVersion(existingVersions, newVersion) == <<newVersion>> \o existingVersions

\* a history that keeps only the newest snapshot
onlyNewest(existingVersions, newVersion) == <<newVersion>>

\* [...existingVersions, newVersion]
pushVersion(existingVersions, newVersion) == Append(existingVersions, newVersion)

\* a new card put at the head of its lane
newCardFirst(cardIds, cid) == <<cid>> \o cardIds

\* [...lane.cardIds, newCard.id]
newCardLast(cardIds, cid) == Append(cardIds, cid)

ADD_CARD(s, payload, cid, t) ==
    LET activeProject == getActiveProject(s)
        newCard == Spread(payload, [id |-> cid,
                                    projectId |-> activeProject.id,
                                    isDeleted |-> FALSE,
                                    createdAt |-> t,
                                    updatedAt |-> t])
        updatedLanes == MapLanes(activeProject.lanes, LAMBDA lane :
                            IF lane.id = payload.laneId
                            THEN Spread(lane, [cardIds |-> newCardLast(lane.cardIds, cid)])
                            ELSE lane)
        updatedProjects == mapActiveProject(s, LAMBDA project :
                               Spread(project, [lanes |-> updatedLanes, updatedAt |-> t]))
    IN  IF activeProject = NoProject THEN s
        ELSE IF updatedProjects = NoProjects THEN s
        ELSE Spread(s, [cards |-> Put(s.cards, cid, newCard),
                        projects |-> updatedProjects])

UPDATE_CARD(s, id, updates, vid, t) ==
    LET existingCard == Get(s.cards, id, NoCard)
        existingVersions == Get(s.cardVersions, id, <<>>)
        newVersion == createCardVersion(existingCard, existingVersions, vid, t)
        updatedCard == Spread(Spread(existingCard, updates), [updatedAt |-> t])
        updatedProjects == mapActiveProject(s, LAMBDA project :
                               Spread(project, [updatedAt |-> t]))
    IN  IF existingCard = NoCard THEN unknownCard(s)
        ELSE IF updatedProjects = NoProjects THEN s
        ELSE Spread(s, [cards |-> Put(s.cards, id, updatedCard),
                        cardVersions |-> Put(s.cardVersions, id,
                                             pushVersion(existingVersions, newVersion)),
                        projects |-> updatedProjects])

DELETE_CARD(s, id, vid, t) ==
    LET existingCard == Get(s.cards, id, NoCard)
        existingVersions == Get(s.cardVersions, id, <<>>)
        newVersion == createCardVersion(existingCard, existingVersions, vid, t)
        updatedCard == Spread(existingCard, [isDeleted |-> TRUE, updatedAt |-> t])
        activeProject == getActiveProject(s)
        updatedLanes == MapLanes(activeProject.lanes, LAMBDA lane :
                            IF lane.id = existingCard.laneId
                            THEN Spread(lane, [cardIds |-> Without(lane.cardIds, id)])
                            ELSE lane)
    IN  IF existingCard = NoCard THEN unknownCard(s)
        ELSE IF activeProject = NoProject THEN s
        ELSE Spread(s, [cards |-> Put(s.cards, id, updatedCard),
                        cardVersions |-> Put(s.cardVersions, id,
                                             pushVersion(existingVersions, newVersion)),
                        projects |-> WithLanes(s, updatedLanes, t)])

RESTORE_CARD(s, id, t) ==
    LET existingCard == Get(s.cards, id, NoCard)
        restoredCard == Spread(existingCard, [isDeleted |-> FALSE, updatedAt |-> t])
        activeProject == getActiveProject(s)
        updatedLanes == MapLanes(activeProject.lanes, LAMBDA lane :
                            IF lane.id = existingCard.laneId
                            THEN Spread(lane, [cardIds |-> Append(lane.cardIds, id)])
                            ELSE lane)
    IN  IF existingCard = NoCard THEN unknownCard(s)
        ELSE IF ~existingCard.isDeleted THEN s
        ELSE IF activeProject = NoProject THEN s
        ELSE Spread(s, [cards |-> Put(s.cards, id, restoredCard),
                        projects |-> WithLanes(s, updatedLanes, t)])

MOVE_CARD(s, cardId, toLaneId, toIndex, vid, t) ==
    LET card == Get(s.cards, cardId, NoCard)
        fromLaneId == card.laneId
        existingVersions == Get(s.cardVersions, cardId, <<>>)
        newVersion == createCardVersion(card, existingVersions, vid, t)
        updatedCard == Spread(card, [laneId |-> toLaneId, updatedAt |-> t])
        activeProject == getActiveProject(s)
        updatedLanes == MapLanes(activeProject.lanes, LAMBDA lane :
                            IF lane.id = fromLaneId /\ fromLaneId # toLaneId
                            THEN Spread(lane, [cardIds |-> Without(lane.cardIds, cardId)])
                            ELSE IF lane.id = toLaneId
                            THEN Spread(lane, [cardIds |->
                                     Splice(Without(lane.cardIds, cardId), toIndex, cardId)])
                            ELSE lane)
    IN  IF card = NoCard THEN unknownCard(s)
        ELSE IF activeProject = NoProject THEN s
        ELSE Spread(s, [cards |-> Put(s.cards, cardId, updatedCard),
                        cardVersions |-> Put(s.cardVersions, cardId,
                                             pushVersion(existingVersions, newVersion)),
                        projects |-> WithLanes(s, updatedLanes, t)])

REORDER_CARDS(s, laneId, cardIds, t) ==
    LET activeProject == getActiveProject(s)
        updatedLanes == MapLanes(activeProject.lanes, LAMBDA lane :
                            IF lane.id = laneId
                            THEN Spread(lane, [cardIds |-> cardIds])
                            ELSE lane)
    IN  IF activeProject = NoProject THEN s
        ELSE Spread(s, [projects |-> WithLanes(s, updatedLanes, t)])

\* the version before the last one, the last one when there is no other
secondToLast(versions) ==
    IF Len(versions) > 1 THEN versions[Len(versions) - 1] ELSE versions[Len(versions)]

\* a history that loses its oldest entry
allButFirst(versions) == Tail(versions)

\* versions[versions.length - 1]
lastOf(versions) == versions[Len(versions)]

\* versions.slice(0, -1)
allButLast(versions) == SubSeq(versions, 1, Len(versions) - 1)

\* [...lane.cardIds, cardId]
toTail(cardIds, cardId) == Append(cardIds, cardId)

UNDO_CARD(s, cardId, t) ==
    LET versions == Get(s.cardVersions, cardId, <<>>)
        previousVersion == lastOf(versions)
        restoredCard == Spread(Spread([id |-> cardId], previousVersion.data),
                               [updatedAt |-> t])
        currentCard == Get(s.cards, cardId, NoCard)
        activeProject == getActiveProject(s)
        updatedLanes ==
            IF currentCard # NoCard /\ currentCard.laneId # restoredCard.laneId
            THEN MapLanes(activeProject.lanes, LAMBDA lane :
                     IF lane.id = currentCard.laneId
                     THEN Spread(lane, [cardIds |-> Without(lane.cardIds, cardId)])
                     ELSE IF lane.id = restoredCard.laneId
                     THEN Spread(lane, [cardIds |-> toTail(lane.cardIds, cardId)])
                     ELSE lane)
            ELSE activeProject.lanes
        remainingVersions == allButLast(versions)
    IN  IF Len(versions) = 0 THEN unknownCard(s)
        ELSE IF activeProject = NoProject THEN s
        ELSE Spread(s, [cards |-> Put(s.cards, cardId, restoredCard),
                        cardVersions |-> Put(s.cardVersions, cardId, remainingVersions),
                        projects |-> WithLanes(s, updatedLanes, t)])

-----------------------------------------------------------------------------
(* BoardReducer.ts: the lane actions *)

ADD_LANE(s, title, lid, t) ==
    LET activeProject == getActiveProject(s)
        maxOrder == MaxOf({activeProject.lanes[i].order :
                              i \in 1..Len(activeProject.lanes)} \cup {-1})
        newLane == [id |-> lid, title |-> title, order |-> maxOrder + 1,
                    cardIds |-> <<>>]
    IN  IF activeProject = NoProject THEN s
        ELSE Spread(s, [projects |->
                 WithLanes(s, Append(activeProject.lanes, newLane), t)])

UPDATE_LANE(s, id, updates, t) ==
    LET activeProject == getActiveProject(s)
        updatedLanes == MapLanes(activeProject.lanes, LAMBDA lane :
                            IF lane.id = id THEN Spread(lane, updates) ELSE lane)
    IN  IF activeProject = NoProject THEN s
        ELSE Spread(s, [projects |-> WithLanes(s, updatedLanes, t)])

\* the for loop of DELETE_LANE over laneToDelete.cardIds, from its k-th id on
RECURSIVE ReassignCards(_, _, _, _, _)
ReassignCards(cards, cardIds, k, laneId, t) ==
    IF k > Len(cardIds) THEN cards
    ELSE ReassignCards(
             IF cardIds[k] \in DOMAIN cards
             THEN Put(cards, cardIds[k],
                      Spread(cards[cardIds[k]], [laneId |-> laneId, updatedAt |-> t]))
             ELSE cards,
             cardIds, k + 1, laneId, t)

\* the last lane that remains
lastRemaining(remainingLanes) == remainingLanes[Len(remainingLanes)]

\* a guard that lets the only lane go
noLaneAtAll(lanes) == Len(lanes) < 1

\* remainingLanes[0], undefined where no lane remains
firstOf(remainingLanes) ==
    IF remainingLanes = <<>> THEN NoLane ELSE remainingLanes[1]

\* activeProject.lanes.length <= 1
isLastLane(lanes) == Len(lanes) <= 1

\* a map that leaves the order field as it was
orderKept(lane, index) == lane.order

\* remainingLanes.map((lane, index) => ({...lane, order: index}))
orderAt(lane, index) == index

DELETE_LANE(s, id, t) ==
    LET activeProject == getActiveProject(s)
        found == {i \in 1..Len(activeProject.lanes) : activeProject.lanes[i].id = id}
        laneToDelete == activeProject.lanes[CHOOSE i \in found : \A j \in found : i <= j]
        remainingLanes == SelectSeq(activeProject.lanes, LAMBDA l : l.id # id)
        firstLane == firstOf(remainingLanes)
        updatedCards == ReassignCards(s.cards, laneToDelete.cardIds, 1, firstLane.id, t)
        updatedLanes == [i \in 1..Len(remainingLanes) |->
                            IF remainingLanes[i].id = firstLane.id
                            THEN Spread(remainingLanes[i],
                                        [cardIds |-> remainingLanes[i].cardIds
                                                         \o laneToDelete.cardIds,
                                         order |-> orderAt(remainingLanes[i], i - 1)])
                            ELSE Spread(remainingLanes[i],
                                        [order |-> orderAt(remainingLanes[i], i - 1)])]
    IN  IF activeProject = NoProject THEN s
        ELSE IF isLastLane(activeProject.lanes)
        THEN Spread(s, [error |-> LastLaneError])
        ELSE IF found = {} THEN s
        ELSE Spread(s, [cards |-> updatedCards,
                        projects |-> WithLanes(s, updatedLanes, t)])

\* laneIds.map((id, index) => lane ? {...lane, order: index} : null), from the
\* k-th id on, with the nulls filtered out
RECURSIVE ReorderedLanes(_, _, _)
ReorderedLanes(lanes, laneIds, k) ==
    IF k > Len(laneIds) THEN <<>>
    ELSE LET found == {i \in 1..Len(lanes) : lanes[i].id = laneIds[k]}
             \* new Map(entries): the last entry of a key wins
             lane == lanes[CHOOSE i \in found : \A j \in found : j <= i]
         IN  (IF found = {} THEN <<>> ELSE <<Spread(lane, [order |-> k - 1])>>)
                 \o ReorderedLanes(lanes, laneIds, k + 1)

REORDER_LANES(s, laneIds, t) ==
    LET activeProject == getActiveProject(s)
        reorderedLanes == ReorderedLanes(activeProject.lanes, laneIds, 1)
    IN  IF activeProject = NoProject THEN s
        ELSE Spread(s, [projects |-> WithLanes(s, reorderedLanes, t)])

-----------------------------------------------------------------------------
(* BoardReducer.ts: the project actions *)

ADD_PROJECT(s, payload, pid, laneIds, t) ==
    LET newProject == [id |-> pid,
                       title |-> payload.title,
                       thumbnailUrl |-> payload.thumbnailUrl,
                       lanes |-> createDefaultLanes(laneIds),
                       createdAt |-> t,
                       updatedAt |-> t]
    IN  Spread(s, [projects |-> Append(s.projects, newProject),
                   activeProjectId |-> pid])

UPDATE_PROJECT(s, id, updates, t) ==
    Spread(s, [projects |-> [i \in 1..Len(s.projects) |->
                   IF s.projects[i].id = id
                   THEN Spread(Spread(s.projects[i], updates), [updatedAt |-> t])
                   ELSE s.projects[i]]])

\* a guard that lets the only project go
neverLast(remainingProjects) == FALSE

\* remainingProjects.length === 0
isLastProject(remainingProjects) == Len(remainingProjects) = 0

\* an active project id that outlives its project
staysActive(activeProjectId, id, remainingProjects) == activeProjectId

\* state.activeProjectId === action.payload.id
\*     ? remainingProjects[0]?.id ?? null : state.activeProjectId
nextActive(activeProjectId, id, remainingProjects) ==
    IF activeProjectId = id
    THEN (IF Len(remainingProjects) > 0 THEN remainingProjects[1].id ELSE NullId)
    ELSE activeProjectId

\* a cascade that finds no card to delete
noCards(cards, id) == {}

\* the cards the for loop of DELETE_PROJECT deletes: card.projectId === id
cardsOf(cards, id) == {cardId \in DOMAIN cards : cards[cardId].projectId = id}

DELETE_PROJECT(s, id) ==
    LET remainingProjects == SelectSeq(s.projects, LAMBDA project : project.id # id)
        doomed == cardsOf(s.cards, id)
        updatedCards == Drop(s.cards, doomed)
        updatedVersions == Drop(s.cardVersions, doomed)
        nextActiveProjectId == nextActive(s.activeProjectId, id, remainingProjects)
    IN  IF Len(remainingProjects) = Len(s.projects) THEN s
        ELSE IF isLastProject(remainingProjects)
        THEN Spread(s, [error |-> LastProjectError])
        ELSE Spread(s, [projects |-> remainingProjects,
                        activeProjectId |-> nextActiveProjectId,
                        cards |-> updatedCards,
                        cardVersions |-> updatedVersions])

SET_ACTIVE_PROJECT(s, id) == Spread(s, [activeProjectId |-> id])

LOAD_STATE(s, payload) == Spread(payload, [isLoading |-> FALSE])

SET_ERROR(s, payload) == Spread(s, [error |-> payload])

-----------------------------------------------------------------------------
(* BoardContext.tsx: the state the provider starts from *)

createInitialState(pid, laneIds, t) ==
    LET defaultProject == [id |-> pid,
                           title |-> "Stuff to do now, stuff to do later",
                           thumbnailUrl |-> Null,
                           lanes |-> createDefaultLanes(laneIds),
                           createdAt |-> t,
                           updatedAt |-> t]
    IN  [projects |-> <<defaultProject>>,
         activeProjectId |-> pid,
         cards |-> <<>>,
         cardVersions |-> <<>>,
         isLoading |-> TRUE,
         error |-> Null]

\* a filter that lets every card pass that exists
anyCard(card, activeProject) == card # NoCard

\* the filter of getCardsByLane
isDisplayed(card, activeProject) ==
    /\ card # NoCard
    /\ ~card.isDeleted
    /\ card.projectId = activeProject.id

\* BoardContext.tsx: the cards a lane displays
getCardsByLane(s, laneId) ==
    LET found == {i \in 1..Len(s.projects) : s.projects[i].id = s.activeProjectId}
        activeProject == s.projects[CHOOSE i \in found : \A j \in found : i <= j]
        lanes == {i \in 1..Len(activeProject.lanes) : activeProject.lanes[i].id = laneId}
        lane == activeProject.lanes[CHOOSE i \in lanes : \A j \in lanes : i <= j]
        listed == [i \in 1..Len(lane.cardIds) |-> Get(s.cards, lane.cardIds[i], NoCard)]
    IN  IF found = {} THEN <<>>
        ELSE IF lanes = {} THEN <<>>
        ELSE SelectSeq(listed, LAMBDA card : isDisplayed(card, activeProject))

\* Board.tsx: [...lanes].sort((a, b) => a.order - b.order), a stable sort
sortedLanes(lanes) ==
    LET rank(i) == Cardinality({j \in 1..Len(lanes) :
                                   \/ lanes[j].order < lanes[i].order
                                   \/ lanes[j].order = lanes[i].order /\ j <= i})
    IN  [k \in 1..Len(lanes) |-> lanes[CHOOSE i \in 1..Len(lanes) : rank(i) = k]]

canUndoCard(s, cardId) == Len(Get(s.cardVersions, cardId, <<>>)) > 0

-----------------------------------------------------------------------------
(* BoardContext.tsx: normalizeState, over persisted blobs.  A blob is a record
   that has the fields the persisted JSON has: a field the JSON lacks is not in
   the record's domain. *)

NoBlob == [absent |-> TRUE]             \* no blob
Raised == [raised |-> "TypeError"]      \* the call threw instead of returning

EmptyId == NullId - 1                   \* the empty string as an id

\* value ?? fallback, of a field that may be absent
OrElse(record, field, fallback) ==
    IF field \in DOMAIN record THEN record[field] ELSE fallback

\* a fallback that never finds a first project
noFirst(projects) == NullId

\* projects[0]?.id ?? null
FirstId(projects) == IF Len(projects) > 0 THEN projects[1].id ELSE NullId

\* activeProjectId ?? ''
OrEmpty(id) == IF id = NullId THEN EmptyId ELSE id

\* a backfill that overwrites the projectId a snapshot has
overwriteVersions(versions, projectId) ==
    [i \in 1..Len(versions) |->
        Spread(versions[i],
               [data |-> Spread(versions[i].data, [projectId |-> projectId])])]

\* the backfill of projectId into the snapshots of one card
BackfillVersions(versions, projectId) ==
    [i \in 1..Len(versions) |->
        Spread(versions[i],
               [data |-> Spread(versions[i].data,
                                [projectId |-> OrElse(versions[i].data, "projectId",
                                                      projectId)])])]

\* a legacy state that comes back with no active project
legacyInactive(project) == NullId

\* activeProjectId: normalizedProject.id
legacyActive(project) == project.id

\* normalizeState of a blob that has a projects field
normalizeCurrent(raw) ==
    LET projects == [i \in 1..Len(raw.projects) |->
                        Spread(raw.projects[i],
                               [title |-> OrElse(raw.projects[i], "title",
                                                 "Untitled project"),
                                thumbnailUrl |-> OrElse(raw.projects[i],
                                                        "thumbnailUrl", Null)])]
        given == OrElse(raw, "activeProjectId", NullId)
        candidateProjectId == IF given # NullId THEN given ELSE FirstId(projects)
        activeProjectId ==
            IF \E i \in 1..Len(projects) : projects[i].id = candidateProjectId
            THEN candidateProjectId
            ELSE FirstId(projects)
        cards == [id \in DOMAIN raw.cards |->
                     Spread(raw.cards[id],
                            [projectId |-> OrElse(raw.cards[id], "projectId",
                                                  OrEmpty(activeProjectId))])]
        rawVersions == OrElse(raw, "cardVersions", <<>>)
        cardVersions ==
            [cardId \in DOMAIN rawVersions |->
                BackfillVersions(rawVersions[cardId],
                                 IF cardId \in DOMAIN cards
                                 THEN cards[cardId].projectId
                                 ELSE OrEmpty(activeProjectId))]
    IN  \* Object.entries(raw.cards) throws when raw.cards is undefined
        IF "cards" \notin DOMAIN raw THEN Raised
        ELSE Spread(raw, [projects |-> projects,
                          activeProjectId |-> activeProjectId,
                          cards |-> cards,
                          cardVersions |-> cardVersions,
                          isLoading |-> OrElse(raw, "isLoading", FALSE),
                          error |-> OrElse(raw, "error", Null)])

\* normalizeState of a blob that has no projects field: the legacy schema
normalizeLegacy(raw, laneIds, t) ==
    LET project == raw.project
        normalizedProject ==
            [id |-> project.id,
             title |-> OrElse(project, "title",
                              OrElse(project, "name", "Untitled project")),
             thumbnailUrl |-> Null,
             lanes |-> OrElse(project, "lanes", createDefaultLanes(laneIds)),
             createdAt |-> OrElse(project, "createdAt", t),
             updatedAt |-> OrElse(project, "updatedAt", t)]
        rawCards == OrElse(raw, "cards", <<>>)
        cards == [id \in DOMAIN rawCards |->
                     Spread(rawCards[id],
                            [projectId |-> OrElse(rawCards[id], "projectId",
                                                  normalizedProject.id)])]
        rawVersions == OrElse(raw, "cardVersions", <<>>)
        cardVersions ==
            [cardId \in DOMAIN rawVersions |->
                BackfillVersions(rawVersions[cardId],
                                 IF cardId \in DOMAIN cards
                                 THEN cards[cardId].projectId
                                 ELSE normalizedProject.id)]
    IN  \* raw.project.id throws when raw.project is undefined
        IF "project" \notin DOMAIN raw THEN Raised
        ELSE [projects |-> <<normalizedProject>>,
              activeProjectId |-> legacyActive(normalizedProject),
              cards |-> cards,
              cardVersions |-> cardVersions,
              isLoading |-> OrElse(raw, "isLoading", FALSE),
              error |-> OrElse(raw, "error", Null)]

\* laneIds and t are what generateId() and new Date() give during the call
normalizeState(raw, laneIds, t) ==
    IF "projects" \in DOMAIN raw THEN normalizeCurrent(raw)
    ELSE normalizeLegacy(raw, laneIds, t)

\* The persisted blobs normalizeState is given: each field present or absent

\* a field that may be absent: no field, or the field with one of the values
Optional(field, values) == {<<>>} \cup {[k \in {field} |-> v] : v \in values}

\* the n-th project of a persisted board
StoredProject(n) ==
    [id |-> ProjectIdOf(n),
     title |-> "Board",
     thumbnailUrl |-> Null,
     lanes |-> createDefaultLanes(<<LaneIdOf(3 * n - 2), LaneIdOf(3 * n - 1),
                                    LaneIdOf(3 * n)>>),
     createdAt |-> 0,
     updatedAt |-> 0]

\* the same project as an older build persisted it
UntitledProject(n) == Drop(StoredProject(n), {"title", "thumbnailUrl"})

\* the project of the single-board schema
LegacyProjects ==
    { Spread(Drop(StoredProject(1), {"title", "thumbnailUrl"}), [name |-> "Old board"]),
      Drop(StoredProject(1), {"thumbnailUrl"}),
      [id |-> ProjectIdOf(1)] }

\* a persisted card, of the second project
StoredCard ==
    [id |-> CardIdOf(1), projectId |-> ProjectIdOf(2), title |-> "A",
     description |-> "", type |-> "task", priority |-> "medium", dueDate |-> Null,
     labels |-> <<>>, assignee |-> Null, laneId |-> LaneIdOf(1), order |-> 0,
     isDeleted |-> FALSE, createdAt |-> 0, updatedAt |-> 0]

\* a persisted snapshot of it
StoredVersion ==
    [id |-> VersionIdOf(CardIdOf(1), 1), cardId |-> CardIdOf(1), version |-> 1,
     data |-> Drop(StoredCard, {"id"}), timestamp |-> 0]

StoredCards ==
    { <<>>,
      [id \in {CardIdOf(1)} |-> StoredCard],
      [id \in {CardIdOf(1)} |-> Drop(StoredCard, {"projectId"})] }

StoredVersions ==
    { [id \in {CardIdOf(1)} |-> <<StoredVersion>>],
      [id \in {CardIdOf(1)} |->
          <<Spread(StoredVersion, [data |-> Drop(StoredVersion.data, {"projectId"})])>>],
      \* the history of a card that is not persisted
      [id \in {CardIdOf(2)} |->
          <<Spread(StoredVersion, [data |-> Drop(StoredVersion.data, {"projectId"})])>>] }

\* cards, cardVersions, isLoading and error, each present or not
BlobRest ==
    { Spread(Spread(cards, versions), Spread(loading, error)) :
        cards \in Optional("cards", StoredCards),
        versions \in Optional("cardVersions", StoredVersions),
        loading \in Optional("isLoading", {TRUE}),
        error \in Optional("error", {"Failed"}) }

\* the blobs of the current schema
CurrentBlobs ==
    { Spread(Spread([projects |-> projects], active), rest) :
        projects \in { <<>>, <<StoredProject(1)>>, <<UntitledProject(1)>>,
                       <<StoredProject(1), UntitledProject(2)>> },
        active \in Optional("activeProjectId",
                            {NullId, ProjectIdOf(1), ProjectIdOf(2), BogusProject}),
        rest \in BlobRest }

\* the blobs of the single-board schema
LegacyBlobs ==
    { Spread([project |-> project], rest) :
        project \in LegacyProjects, rest \in BlobRest }

Blobs == CurrentBlobs \cup LegacyBlobs

-----------------------------------------------------------------------------
(* The inputs the actions are dispatched with *)

\* the lanes of the active project, <<>> when there is none
ActiveLanes ==
    IF getActiveProject(state) = NoProject THEN <<>>
    ELSE getActiveProject(state).lanes

LaneIdsOf(lanes) == {lanes[i].id : i \in 1..Len(lanes)}

\* lanes.find(l => l.id === id)
LaneOf(lanes, id) ==
    LET found == {i \in 1..Len(lanes) : lanes[i].id = id}
    IN  IF found = {} THEN NoLane
        ELSE lanes[CHOOSE i \in found : \A j \in found : i <= j]

\* the first n elements of a sequence, all of them when it has fewer
Take(seq, n) == SubSeq(seq, 1, IF n < Len(seq) THEN n ELSE Len(seq))

\* the first lane of every project that is not the active one
OtherLaneIds ==
    {state.projects[i].lanes[1].id :
        i \in {j \in 1..Len(state.projects) :
                  /\ state.projects[j].id # state.activeProjectId
                  /\ Len(state.projects[j].lanes) > 0}}

\* the lanes a card action can name: the first two lanes on display, a lane of
\* a project that is not on display, and a lane that does not exist
LaneInputs ==
    LaneIdsOf(Take(ActiveLanes, 2)) \cup OtherLaneIds \cup {BogusLane}

\* the cards of the board, of any project, deleted or not
CardInputs == DOMAIN state.cards

ProjectIds == {state.projects[i].id : i \in 1..Len(state.projects)}

ToIndexes == {0, 1}

\* Lane.tsx handleAddCard: the card a lane's editor submits
CardPayload(laneId) ==
    [title |-> "A", description |-> "", type |-> "task", priority |-> "medium",
     dueDate |-> Null, labels |-> <<>>, assignee |-> Null,
     laneId |-> laneId, order |-> 0]

\* CardEditor.tsx handleSubmit: patches of the content fields
CardUpdates ==
    { [priority |-> "urgent"],
      [title |-> "B", description |-> "text", type |-> "bug",
       dueDate |-> "2026-01-01",
       labels |-> <<[id |-> "label-3", name |-> "Bug", color |-> "#eb5a46"]>>,
       assignee |-> "ann"] }

LaneUpdates == { [title |-> "Renamed"] }
ProjectUpdates == { [title |-> "Renamed"] }

\* the rearrangements of a sequence that change it
Perms(seq) ==
    {[i \in 1..Len(seq) |-> seq[f[i]]] : f \in Permutations(1..Len(seq))} \ {seq}

\* Board.tsx handleDragEnd: a card dragged over another card of its lane
CardOrderInputs(laneId) ==
    IF laneId \in LaneIdsOf(ActiveLanes)
    THEN Perms(ActiveLanes[CHOOSE i \in 1..Len(ActiveLanes) :
                               ActiveLanes[i].id = laneId].cardIds)
    ELSE {}

\* Board.tsx handleDragEnd: the first lane dragged over the second one, or
\* over the last one
LaneOrderInputs ==
    LET laneIds == [i \in 1..Len(ActiveLanes) |-> ActiveLanes[i].id]
        n == Len(laneIds)
    IN  IF n < 2 THEN {}
        ELSE { <<laneIds[2], laneIds[1]>> \o SubSeq(laneIds, 3, n),
               SubSeq(laneIds, 2, n) \o <<laneIds[1]>> }

-----------------------------------------------------------------------------
(* The state machine: one dispatch of the reducer per step *)

\* the previous dispatch, when it snapshotted the card that this one undoes
Undone(type, id) ==
    IF /\ type = "UNDO_CARD"
       /\ last.type \in {"UPDATE_CARD", "DELETE_CARD", "MOVE_CARD"}
       /\ last.id = id
       /\ last.changed
    THEN last.type
    ELSE "none"

\* the versions generateId() has named for a card so far
Snapshots(cardId) == Get(gen.version, cardId, 0)

\* the highest version number each card of the board was given so far
Numbered(result) ==
    [id \in DOMAIN result.cardVersions |->
        MaxOf({Get(numbered, id, 0)} \cup
              {result.cardVersions[id][i].version :
                  i \in 1..Len(result.cardVersions[id])})]

\* BoardContext.tsx: the save effect of the provider. A timer that is set is
\* a record of its id, the state its callback closed over and the instant of
\* the timers' clock it is due at.

\* a cleanup that leaves the timer set
keepSave(pending, ref) == pending

\* window.clearTimeout(saveTimeoutRef.current)
clearSave(pending, ref) == {timer \in pending : timer.id # ref}

\* the effect before its first run: saveTimeoutRef.current is null
Idle == [ref |-> NullId, pending |-> {}, issued |-> <<>>, since |-> 0]

\* the cleanup the effect returned
saveCleanup(p) == [p EXCEPT !.pending = clearSave(@, p.ref)]

\* an effect that sets no timer
neverSave(p, s, t) == saveCleanup(p)

\* the state changed to s at the instant t: the cleanup of the run before,
\* then the effect on s
saveEffect(p, s, t) ==
    IF s.isLoading
    THEN saveCleanup(p)
    ELSE [saveCleanup(p) EXCEPT
             !.ref = p.ref + 1,
             !.pending = @ \cup {[id |-> p.ref + 1, state |-> s,
                                  due |-> t + SAVE_DELAY_MS]}]

\* the effect depends on [state]: it runs when the state changed; since is the
\* instant of the latest change
Rendered(p, result) ==
    IF result = state THEN p
    ELSE [saveEffect(p, result, mount.elapsed) EXCEPT !.since = mount.elapsed]

\* dispatch(action): the reducer's result becomes the state; used tells the
\* ids generateId() handed out to build it, arg the lane or the list of ids the
\* action names next to id, at the index it names
DispatchAt(type, id, arg, at, ok, result, used) ==
    /\ steps < MaxSteps
    /\ valid' = (valid /\ ok)
    /\ steps' = steps + 1
    /\ state' = result
    /\ gen' = IF result = state THEN gen ELSE used
    /\ numbered' = Numbered(result)
    /\ persist' = Rendered(persist, result)
    /\ UNCHANGED <<savedState, normalizations, mount, server>>
    /\ last' = [type |-> type, id |-> id, arg |-> arg, at |-> at,
                card |-> Get(state.cards, id, NoCard),
                lane |-> LaneOf(ActiveLanes, id),
                changed |-> result # state,
                undoes |-> Undone(type, id)]
    /\ now' = now

\* an action that names no index
DispatchWith(type, id, arg, ok, result, used) ==
    DispatchAt(type, id, arg, NullId, ok, result, used)

Dispatch(type, id, ok, result, used) ==
    DispatchWith(type, id, NullId, ok, result, used)

OneSnapshot(cardId) ==
    [gen EXCEPT !.version = Put(gen.version, cardId, Snapshots(cardId) + 1)]

AddCard ==
    \E laneId \in LaneInputs :
        Dispatch("ADD_CARD", laneId, laneId \in LaneIdsOf(ActiveLanes),
                 ADD_CARD(state, CardPayload(laneId), CardIdOf(gen.card + 1), now),
                 [gen EXCEPT !.card = @ + 1])

UpdateCard ==
    \E id \in CardInputs, updates \in CardUpdates :
        Dispatch("UPDATE_CARD", id, id \in DOMAIN state.cards,
                 UPDATE_CARD(state, id, updates,
                             VersionIdOf(id, Snapshots(id) + 1), now),
                 OneSnapshot(id))

DeleteCard ==
    \E id \in CardInputs :
        Dispatch("DELETE_CARD", id, id \in DOMAIN state.cards,
                 DELETE_CARD(state, id, VersionIdOf(id, Snapshots(id) + 1), now),
                 OneSnapshot(id))

RestoreCard ==
    \E id \in CardInputs :
        Dispatch("RESTORE_CARD", id,
                 id \in DOMAIN state.cards /\ state.cards[id].isDeleted,
                 RESTORE_CARD(state, id, now), gen)

MoveCard ==
    \E cardId \in CardInputs, toLaneId \in LaneInputs, toIndex \in ToIndexes :
        DispatchAt("MOVE_CARD", cardId, toLaneId, toIndex,
                   cardId \in DOMAIN state.cards /\ toLaneId \in LaneIdsOf(ActiveLanes),
                   MOVE_CARD(state, cardId, toLaneId, toIndex,
                             VersionIdOf(cardId, Snapshots(cardId) + 1), now),
                   OneSnapshot(cardId))

ReorderCards ==
    \E laneId \in LaneIdsOf(ActiveLanes) :
        \E cardIds \in CardOrderInputs(laneId) :
            DispatchWith("REORDER_CARDS", laneId, cardIds,
                         laneId \in LaneIdsOf(ActiveLanes),
                         REORDER_CARDS(state, laneId, cardIds, now), gen)

UndoCard ==
    \E cardId \in CardInputs :
        Dispatch("UNDO_CARD", cardId,
                 Len(Get(state.cardVersions, cardId, <<>>)) > 0,
                 UNDO_CARD(state, cardId, now), gen)

AddLane ==
    \E title \in {"New"}, lid \in {LaneIdOf(gen.lane + 1)} :
        Dispatch("ADD_LANE", lid, getActiveProject(state) # NoProject,
                 ADD_LANE(state, title, lid, now),
                 [gen EXCEPT !.lane = @ + 1])

UpdateLane ==
    \E id \in LaneIdsOf(Take(ActiveLanes, 1)), updates \in LaneUpdates :
        Dispatch("UPDATE_LANE", id, id \in LaneIdsOf(ActiveLanes),
                 UPDATE_LANE(state, id, updates, now), gen)

DeleteLane ==
    \E id \in LaneIdsOf(ActiveLanes) :
        Dispatch("DELETE_LANE", id, id \in LaneIdsOf(ActiveLanes),
                 DELETE_LANE(state, id, now), gen)

ReorderLanes ==
    \E laneIds \in LaneOrderInputs :
        DispatchWith("REORDER_LANES", NullId, laneIds,
                     Range(laneIds) = LaneIdsOf(ActiveLanes),
                     REORDER_LANES(state, laneIds, now), gen)

FreshLaneIds == <<LaneIdOf(gen.lane + 1), LaneIdOf(gen.lane + 2), LaneIdOf(gen.lane + 3)>>

AddProject ==
    \E title \in {"Second"}, pid \in {ProjectIdOf(gen.project + 1)} :
        Dispatch("ADD_PROJECT", pid, TRUE,
                 ADD_PROJECT(state, [title |-> title, thumbnailUrl |-> Null],
                             pid, FreshLaneIds, now),
                 [gen EXCEPT !.project = @ + 1, !.lane = @ + 3])

UpdateProject ==
    \E id \in ProjectIds, updates \in ProjectUpdates :
        Dispatch("UPDATE_PROJECT", id, id \in ProjectIds,
                 UPDATE_PROJECT(state, id, updates, now), gen)

DeleteProject ==
    \E id \in ProjectIds :
        Dispatch("DELETE_PROJECT", id, id \in ProjectIds,
                 DELETE_PROJECT(state, id), gen)

SetActiveProject ==
    \E id \in ProjectIds \cup {BogusProject} :
        Dispatch("SET_ACTIVE_PROJECT", id, id \in ProjectIds,
                 SET_ACTIVE_PROJECT(state, id), gen)

\* BoardContext.tsx: the provider loads a freshly initialised board
LoadState ==
    \E payload \in {createInitialState(ProjectIdOf(gen.project + 1), FreshLaneIds, now)} :
        Dispatch("LOAD_STATE", NullId, TRUE, LOAD_STATE(state, payload),
                 [gen EXCEPT !.project = @ + 1, !.lane = @ + 3])

\* SET_ERROR(null), dispatched where an error is set (elsewhere it returns an
\* equal state)
SetError ==
    /\ state.error # Null
    /\ \E payload \in {Null} :
           Dispatch("SET_ERROR", NullId, TRUE, SET_ERROR(state, payload), gen)

\* a stale reference: the card actions name a card that does not exist
StaleUpdateCard ==
    \E id \in {BogusCard} \ DOMAIN state.cards, updates \in CardUpdates :
        Dispatch("UPDATE_CARD", id, FALSE,
                 UPDATE_CARD(state, id, updates,
                             VersionIdOf(id, Snapshots(id) + 1), now),
                 OneSnapshot(id))

StaleDeleteCard ==
    \E id \in {BogusCard} \ DOMAIN state.cards :
        Dispatch("DELETE_CARD", id, FALSE,
                 DELETE_CARD(state, id, VersionIdOf(id, Snapshots(id) + 1), now),
                 OneSnapshot(id))

StaleRestoreCard ==
    \E id \in {BogusCard} \ DOMAIN state.cards :
        Dispatch("RESTORE_CARD", id, FALSE, RESTORE_CARD(state, id, now), gen)

StaleMoveCard ==
    \E cardId \in {BogusCard} \ DOMAIN state.cards,
       toLaneId \in LaneIdsOf(Take(ActiveLanes, 1)) :
        DispatchWith("MOVE_CARD", cardId, toLaneId, FALSE,
                     MOVE_CARD(state, cardId, toLaneId, 0,
                               VersionIdOf(cardId, Snapshots(cardId) + 1), now),
                     OneSnapshot(cardId))

StaleUndoCard ==
    \E cardId \in {BogusCard} \ DOMAIN state.cards :
        Dispatch("UNDO_CARD", cardId, FALSE, UNDO_CARD(state, cardId, now), gen)

\* a stale reference: the lane actions name a lane that is not on display
StaleReorderCards ==
    \E laneId \in {BogusLane} \ LaneIdsOf(ActiveLanes), cardIds \in {<<>>} :
        DispatchWith("REORDER_CARDS", laneId, cardIds, FALSE,
                     REORDER_CARDS(state, laneId, cardIds, now), gen)

StaleUpdateLane ==
    \E id \in {BogusLane} \ LaneIdsOf(ActiveLanes), updates \in LaneUpdates :
        Dispatch("UPDATE_LANE", id, FALSE, UPDATE_LANE(state, id, updates, now), gen)

StaleDeleteLane ==
    \E id \in {BogusLane} \ LaneIdsOf(ActiveLanes) :
        Dispatch("DELETE_LANE", id, FALSE, DELETE_LANE(state, id, now), gen)

\* REORDER_LANES with a list that leaves lanes out: the empty list, and the
\* first lane alone
PartialReorderLanes ==
    \E laneIds \in {<<>>} \cup {<<ActiveLanes[i].id>> : i \in 1..Len(Take(ActiveLanes, 1))} :
        DispatchWith("REORDER_LANES", NullId, laneIds, FALSE,
                     REORDER_LANES(state, laneIds, now), gen)

\* time passes between two dispatches
Tick ==
    /\ steps < MaxSteps
    /\ steps' = steps + 1
    /\ now' = now + 1
    /\ UNCHANGED <<state, gen, last, valid, numbered, savedState, normalizations, mount,
                   persist, server>>

\* the board the provider starts from
Board ==
    /\ now = 0
    /\ steps = 0
    /\ state = createInitialState(ProjectIdOf(1),
                                  <<LaneIdOf(1), LaneIdOf(2), LaneIdOf(3)>>, 0)
    /\ valid = TRUE
    /\ numbered = <<>>
    /\ gen = [project |-> 1, lane |-> 3, card |-> 0, version |-> <<>>]
    /\ last = [type |-> "INIT", id |-> NullId, arg |-> NullId, at |-> NullId,
               card |-> NoCard, lane |-> NoLane,
               changed |-> FALSE, undoes |-> "none"]

\* normalizeState(raw), called on the blob and then on what it returned
Normalize ==
    /\ Len(normalizations) < MaxPasses
    /\ LET raw == IF normalizations = <<>> THEN savedState
                  ELSE normalizations[Len(normalizations)]
       IN  /\ raw # Raised
           /\ normalizations' = Append(normalizations,
                                       normalizeState(raw, FreshLaneIds, now))
    /\ gen' = [gen EXCEPT !.lane = @ + 3]
    /\ UNCHANGED <<state, now, last, valid, numbered, steps, savedState, mount,
                   persist, server>>

-----------------------------------------------------------------------------
(* server/index.js: the storage service. The board_state table holds at most
   one row, of id 1, whose data column is the text of a JSON value. *)

NoRow == [absent |-> TRUE]          \* selectState.get() finds no row
NoResponse == [status |-> 0]        \* nothing was answered yet
NotAnObject == [invalid |-> TRUE]   \* a request body that is no JSON object

\* JSON.stringify and JSON.parse, on the values of a parsed JSON body: the text
\* names the value it was written from, and only a text can be parsed
stringify(value) == [json |-> value]
parse(text) == text.json

\* an insert that leaves a row that is there as it is
insertState(row, text) == IF row = NoRow THEN [data |-> text] ELSE row

\* upsertState.run(text): INSERT ... ON CONFLICT(id) DO UPDATE SET data
upsertState(row, text) == [data |-> text]

\* deleteState.run()
deleteState(row) == NoRow

\* app.get('/api/board'): the response; dbFails tells that a statement throws
handleGet(row, dbFails) ==
    IF dbFails THEN [status |-> 500]
    ELSE IF row = NoRow THEN [status |-> 204]
    ELSE [status |-> 200, body |-> parse(row.data)]

\* app.put('/api/board'): the row it leaves and the response
handlePut(row, body, dbFails) ==
    IF body = NotAnObject THEN [row |-> row, response |-> [status |-> 400]]
    ELSE IF dbFails THEN [row |-> row, response |-> [status |-> 500]]
    ELSE [row |-> upsertState(row, stringify(body)), response |-> [status |-> 204]]

\* app.delete('/api/board'): the row it leaves and the response
handleDelete(row, dbFails) ==
    IF dbFails THEN [row |-> row, response |-> [status |-> 500]]
    ELSE [row |-> deleteState(row), response |-> [status |-> 204]]

\* the table is empty and no request was handled: request is the request
\* handled last, ran whether its statement ran, response what was answered;
\* applied is the body of the PUT applied last, NoBlob when a DELETE was
\* applied since or no PUT ever. The facade was not called: call is the
\* method called last, fetched what its fetch settled with, returned what it
\* returned
Empty ==
    [row |-> NoRow, request |-> "none", ran |-> FALSE, response |-> NoResponse,
     applied |-> NoBlob,
     call |-> "none", fetched |-> NoResponse, returned |-> NoResponse]

-----------------------------------------------------------------------------
(* services/storage.ts: the storage facade. What fetchWithTimeout settles
   with is the response, or a rejection: the network failed, or the abort
   timer fired. *)

Rejected == [rejected |-> "TypeError"]
Aborted == [rejected |-> "AbortError"]
Done == [resolved |-> TRUE]         \* a promise of void, resolved

\* response.ok
ok(response) == response.status \in 200..299

\* a catch block that throws the error on
rethrown(result, value) == result

\* try { result } catch (error) { console.error(...); return value }
caught(result, value) == IF result = Raised THEN value ELSE result

\* storage.load(), given what fetch settled with and what response.json()
\* settles with: the parsed body, or Raised
load(fetched, json) ==
    caught(IF "rejected" \in DOMAIN fetched THEN Raised
           ELSE IF fetched.status = 204 THEN NoBlob
           ELSE IF ~ok(fetched) THEN Raised
           ELSE json,
           NoBlob)

\* storage.save(state), given what fetch settled with
save(fetched) ==
    caught(IF "rejected" \in DOMAIN fetched THEN Raised
           ELSE IF ~ok(fetched) THEN Raised
           ELSE Done,
           Done)

\* storage.clear(), given what fetch settled with
clear(fetched) ==
    caught(IF "rejected" \in DOMAIN fetched THEN Raised
           ELSE IF ~ok(fetched) THEN Raised
           ELSE Done,
           Done)

\* what becomes of a request: whether it reaches the service, and whether the
\* response reaches the client before the network fails or the abort timer fires
Networks ==
    { [reached |-> FALSE, settled |-> Rejected],
      [reached |-> FALSE, settled |-> Aborted],
      [reached |-> TRUE, settled |-> Rejected],
      [reached |-> TRUE, settled |-> Aborted],
      [reached |-> TRUE, settled |-> Done] }

\* what fetch settles with, given the response the service sent
Fetched(net, response) == IF net.settled = Done THEN response ELSE net.settled

\* the boards the service is given: two projects, the first one active, with
\* and without cards and histories
Bodies ==
    { b \in CurrentBlobs :
        /\ Len(b.projects) = 2
        /\ "activeProjectId" \in DOMAIN b
        /\ b.activeProjectId = ProjectIdOf(1)
        /\ "cards" \in DOMAIN b
        /\ "isLoading" \notin DOMAIN b }

\* the service handles a request, when it is reached
Handled(request, handled, ran, body) ==
    [server EXCEPT !.row = handled.row,
                   !.request = request,
                   !.ran = ran,
                   !.response = handled.response,
                   !.applied = IF ran THEN body ELSE @]

\* a call of the facade: the request it makes and what it returns
Exchange(after, call, fetched, returned) ==
    /\ server' = [after EXCEPT !.call = call, !.fetched = fetched,
                               !.returned = returned]
    /\ UNCHANGED <<state, now, gen, last, valid, numbered, steps, savedState,
                   normalizations, mount, persist>>

\* storage.save(body): PUT /api/board
Save ==
    \E body \in Bodies, net \in Networks, dbFails \in BOOLEAN :
        LET handled == handlePut(server.row, body, dbFails)
            fetched == Fetched(net, handled.response)
        IN  Exchange(IF net.reached
                     THEN Handled("PUT", handled, ~dbFails, body) ELSE server,
                     "save", fetched, save(fetched))

\* storage.clear(): DELETE /api/board
Clear ==
    \E net \in Networks, dbFails \in BOOLEAN :
        LET handled == handleDelete(server.row, dbFails)
            fetched == Fetched(net, handled.response)
        IN  Exchange(IF net.reached
                     THEN Handled("DELETE", handled, ~dbFails, NoBlob) ELSE server,
                     "clear", fetched, clear(fetched))

\* storage.load(): GET /api/board; json tells whether response.json() resolves
Load ==
    \E net \in Networks, dbFails \in BOOLEAN, json \in BOOLEAN :
        LET response == handleGet(server.row, dbFails)
            fetched == Fetched(net, response)
        IN  Exchange(IF net.reached
                     THEN Handled("GET", [row |-> server.row, response |-> response],
                                  FALSE, NoBlob)
                     ELSE server,
                     "load", fetched,
                     load(fetched, IF json /\ "body" \in DOMAIN fetched
                                   THEN fetched.body ELSE Raised))

\* a PUT of another client, whose body is no JSON object
PutInvalid ==
    \E dbFails \in BOOLEAN :
        /\ server' = Handled("PUT", handlePut(server.row, NotAnObject, dbFails),
                             FALSE, NoBlob)
        /\ UNCHANGED <<state, now, gen, last, valid, numbered, steps, savedState,
                       normalizations, mount, persist>>

-----------------------------------------------------------------------------
(* BoardContext.tsx: the load effect of the provider, and storage.load.
   mount.request tells how far storage.load has come: "fetching" until fetch
   settles, "reading" while response.json() is awaited, "done" once the effect
   has handled the result. Each timer is "armed", "fired" or "cleared". *)

\* an effect that sets no fallback timer
noFallback == "cleared"

\* window.setTimeout(..., 3000) of the effect
armFallback == "armed"

Mounted ==
    [isActive |-> TRUE, request |-> "fetching", fallback |-> armFallback,
     abort |-> "armed", elapsed |-> 0]

\* the timer is set and its delay has passed
due(timer, delay) == timer = "armed" /\ mount.elapsed >= delay

\* createInitialState() with isLoading = false
freshState ==
    Spread(createInitialState(ProjectIdOf(gen.project + 1), FreshLaneIds, now),
           [isLoading |-> FALSE])

\* what the try block of loadState leaves as the state, given what storage.load
\* resolved with
loadResult(saved) ==
    IF saved = Raised
    THEN LOAD_STATE(state, freshState)                 \* the catch block
    ELSE IF saved = NoBlob
    THEN LOAD_STATE(SET_ERROR(state, Null), freshState)
    ELSE LET normalized == normalizeState(saved, FreshLaneIds, now)
         IN  IF normalized = Raised
             THEN LOAD_STATE(state, freshState)        \* the catch block
             ELSE LOAD_STATE(state, Spread(normalized, [isLoading |-> FALSE]))

\* a dispatch of LOAD_STATE by the effect; after is the effect's state then
EffectDispatch(result, after) ==
    /\ state' = result
    /\ gen' = [gen EXCEPT !.project = @ + 1, !.lane = @ + 3]
    /\ numbered' = Numbered(result)
    /\ last' = [type |-> "LOAD_STATE", id |-> NullId, arg |-> NullId, at |-> NullId,
                card |-> NoCard, lane |-> NoLane,
                changed |-> result # state, undoes |-> "none"]
    /\ mount' = after
    /\ persist' = Rendered(persist, result)
    /\ UNCHANGED <<now, valid, steps, savedState, normalizations, server>>

\* a finally block that leaves the fallback timer set
leaveFallback(fallback) == fallback

\* window.clearTimeout(fallbackTimeoutId) in the finally block of loadState
clearFallback(fallback) == IF fallback = "armed" THEN "cleared" ELSE fallback

\* storage.load() resolves with saved and loadState runs to its end: nothing is
\* dispatched after the cleanup, and finally clears the fallback timer
Resolve(saved, abort) ==
    LET after == [mount EXCEPT !.request = "done",
                               !.abort = abort,
                               !.fallback = clearFallback(@)]
    IN  IF mount.isActive
        THEN EffectDispatch(loadResult(saved), after)
        ELSE /\ mount' = after
             /\ UNCHANGED <<state, now, gen, last, valid, numbered, steps, savedState,
                            normalizations, persist, server>>

\* fetch resolves with an OK response that has a body; the abort timer is cleared
Answer200 ==
    /\ mount.request = "fetching"
    /\ savedState # NoBlob
    /\ mount' = [mount EXCEPT !.request = "reading", !.abort = "cleared"]
    /\ UNCHANGED <<state, now, gen, last, valid, numbered, steps, savedState,
                   normalizations, persist, server>>

\* response.json() resolves with the persisted blob
BodyRead ==
    /\ mount.request = "reading"
    /\ Resolve(load([status |-> 200], savedState), mount.abort)

\* response.json() rejects: storage.load catches and returns null
BodyFails ==
    /\ mount.request = "reading"
    /\ Resolve(load([status |-> 200], Raised), mount.abort)

\* fetch resolves with 204 or with a status that is not OK, or rejects:
\* storage.load returns null
AnswerNothing ==
    /\ mount.request = "fetching"
    /\ \E fetched \in {[status |-> 500], Rejected}
                        \cup {[status |-> 204] : none \in {NoBlob} \cap {savedState}} :
           Resolve(load(fetched, Raised), "cleared")

\* the abort timer fires while fetch is pending: fetch rejects and storage.load
\* returns null
AbortFires ==
    /\ mount.request = "fetching"
    /\ due(mount.abort, REQUEST_TIMEOUT_MS)
    /\ Resolve(load(Aborted, Raised), "fired")

\* the fallback timer fires
FallbackFires ==
    /\ due(mount.fallback, FALLBACK_MS)
    /\ mount.isActive
    /\ EffectDispatch(LOAD_STATE(state, freshState),
                      [mount EXCEPT !.fallback = "fired"])

\* the provider unmounts: the cleanups of both effects
Unmount ==
    /\ mount.isActive
    /\ mount' = [mount EXCEPT !.isActive = FALSE,
                              !.fallback = IF @ = "armed" THEN "cleared" ELSE @]
    /\ persist' = saveCleanup(persist)
    /\ UNCHANGED <<state, now, gen, last, valid, numbered, steps, savedState,
                   normalizations, server>>

\* a save timer is set and its delay has passed
SaveDue == {timer \in persist.pending : mount.elapsed >= timer.due}

\* the callback of a save timer: storage.save(state), with the state the
\* effect closed over
SaveFires ==
    \E timer \in SaveDue :
        /\ persist' = [persist EXCEPT !.pending = @ \ {timer},
                                      !.issued = Append(@, timer.state)]
        /\ UNCHANGED <<state, now, gen, last, valid, numbered, steps, savedState,
                       normalizations, mount, server>>

\* the instants at which the timers' clock is read: the delays of the load
\* effect's timers, the end of the time the mount is followed for, and the
\* instants the save timers are due at
Deadlines ==
    {FALLBACK_MS, REQUEST_TIMEOUT_MS, MaxElapsed}
        \cup {timer.due : timer \in persist.pending}

\* the timers' clock moves on to the next deadline; a timer that is due fires
\* first
Elapse ==
    /\ \E t \in Deadlines : t > mount.elapsed
    /\ ~due(mount.fallback, FALLBACK_MS)
    /\ ~(mount.request = "fetching" /\ due(mount.abort, REQUEST_TIMEOUT_MS))
    /\ SaveDue = {}
    /\ mount' = [mount EXCEPT !.elapsed =
                     CHOOSE t \in Deadlines :
                         /\ t > mount.elapsed
                         /\ \A u \in Deadlines : u > mount.elapsed => t <= u]
    /\ UNCHANGED <<state, now, gen, last, valid, numbered, steps, savedState,
                   normalizations, persist, server>>

\* the provider as it is mounted, nothing persisted
Init ==
    /\ Board
    /\ savedState = NoBlob
    /\ normalizations = <<>>
    /\ mount = Mounted
    /\ persist = Idle
    /\ server = Empty

Next ==
    \/ AddCard \/ UpdateCard \/ DeleteCard \/ RestoreCard \/ MoveCard
    \/ ReorderCards \/ UndoCard
    \/ AddLane \/ UpdateLane \/ DeleteLane \/ ReorderLanes
    \/ AddProject \/ UpdateProject \/ DeleteProject \/ SetActiveProject
    \/ LoadState \/ SetError
    \/ Tick

Spec == Init /\ [][Next]_vars

\* the card actions alone, on the board the provider starts from
NextCards ==
    \/ AddCard \/ UpdateCard \/ DeleteCard \/ RestoreCard \/ MoveCard
    \/ UndoCard
    \/ Tick

SpecCards == Init /\ [][NextCards]_vars

\* the card and lane actions of one project, stale references among them
NextStale ==
    \/ AddCard \/ UpdateCard \/ DeleteCard \/ MoveCard
    \/ AddLane \/ UpdateLane \/ DeleteLane \/ ReorderLanes
    \/ StaleUpdateCard \/ StaleDeleteCard \/ StaleRestoreCard \/ StaleMoveCard
    \/ StaleUndoCard
    \/ StaleReorderCards \/ StaleUpdateLane \/ StaleDeleteLane
    \/ PartialReorderLanes
    \/ Tick

SpecStale == Init /\ [][NextStale]_vars

\* the board after ADD_CARD into the first lane and ADD_PROJECT, at time 0: the
\* first project holds a card and the second project is the active one
TwoProjects ==
    ADD_PROJECT(ADD_CARD(createInitialState(ProjectIdOf(1),
                                            <<LaneIdOf(1), LaneIdOf(2), LaneIdOf(3)>>, 0),
                         CardPayload(LaneIdOf(1)), CardIdOf(1), 0),
                [title |-> "Second", thumbnailUrl |-> Null],
                ProjectIdOf(2), <<LaneIdOf(4), LaneIdOf(5), LaneIdOf(6)>>, 0)

InitTwoProjects ==
    /\ now = 0
    /\ steps = 0
    /\ state = TwoProjects
    /\ valid = TRUE
    /\ numbered = <<>>
    /\ gen = [project |-> 2, lane |-> 6, card |-> 1, version |-> <<>>]
    /\ last = [type |-> "ADD_PROJECT", id |-> ProjectIdOf(2), arg |-> NullId,
               at |-> NullId, card |-> NoCard, lane |-> NoLane,
               changed |-> TRUE, undoes |-> "none"]
    /\ savedState = NoBlob
    /\ normalizations = <<>>
    /\ mount = Mounted
    /\ persist = Idle
    /\ server = Empty

\* the card actions on a board of two projects
NextTwoProjects ==
    \/ AddCard \/ UpdateCard \/ DeleteCard \/ RestoreCard \/ MoveCard
    \/ UndoCard
    \/ SetActiveProject
    \/ Tick

SpecTwoProjects == InitTwoProjects /\ [][NextTwoProjects]_vars

\* normalizeState alone, on every blob
InitNormalize ==
    /\ Board
    /\ savedState \in Blobs
    /\ normalizations = <<>>
    /\ mount = Mounted
    /\ persist = Idle
    /\ server = Empty

NextNormalize == Normalize \/ Tick

SpecNormalize == InitNormalize /\ [][NextNormalize]_vars

\* the mount of the provider, over what the storage service holds and does
InitMount ==
    /\ Board
    /\ savedState \in Blobs \cup {NoBlob}
    /\ normalizations = <<>>
    /\ mount = Mounted
    /\ persist = Idle
    /\ server = Empty

NextMount ==
    \/ Answer200
    \/ BodyRead
    \/ BodyFails
    \/ AnswerNothing
    \/ AbortFires
    \/ FallbackFires
    \/ Unmount
    \/ SaveFires
    \/ Elapse

SpecMount == InitMount /\ [][NextMount]_vars

\* the board an earlier mount of the provider saved: its default project with
\* a card in the first lane
Persisted ==
    Spread(ADD_CARD(createInitialState(ProjectIdOf(20),
                                       <<LaneIdOf(21), LaneIdOf(22), LaneIdOf(23)>>, 0),
                    CardPayload(LaneIdOf(21)), CardIdOf(20), 0),
           [isLoading |-> FALSE])

\* Board.tsx renders the board, and with it what the user acts on, once the
\* state is loaded
AtBoard == mount.isActive /\ ~state.isLoading /\ steps < MaxEdits

UserAddCard == AtBoard /\ AddCard

\* the provider with both effects and a user at the board, over a storage
\* service that holds nothing or the board of an earlier mount
InitProvider ==
    /\ Board
    /\ savedState \in {NoBlob, Persisted}
    /\ normalizations = <<>>
    /\ mount = Mounted
    /\ persist = Idle
    /\ server = Empty

NextProvider ==
    \/ Answer200
    \/ BodyRead
    \/ BodyFails
    \/ AnswerNothing
    \/ AbortFires
    \/ FallbackFires
    \/ Unmount
    \/ SaveFires
    \/ Elapse
    \/ UserAddCard

\* the actions that make the lane lists, and cards for the lanes to hold
NextLanes ==
    \/ AddCard
    \/ AddProject
    \/ AddLane \/ DeleteLane \/ ReorderLanes

SpecLanes == Init /\ [][NextLanes]_vars

\* the storage facade and the storage service, over every fate of a request
NextStorage == Save \/ Clear \/ Load \/ PutInvalid

SpecStorage == Init /\ [][NextStorage]_vars

SpecProvider == InitProvider /\ [][NextProvider]_vars

FairProvider ==
    /\ SpecProvider
    /\ WF_vars(Elapse)
    /\ WF_vars(FallbackFires)
    /\ WF_vars(AbortFires)
    /\ WF_vars(SaveFires)

\* the event loop runs: time passes and a timer that is due fires; nothing
\* obliges the storage service to answer
FairMount ==
    /\ SpecMount
    /\ WF_vars(Elapse)
    /\ WF_vars(FallbackFires)
    /\ WF_vars(AbortFires)
    /\ WF_vars(SaveFires)

TypeOK ==
    /\ now \in 0..MaxSteps
    /\ state.isLoading \in BOOLEAN
    /\ state.error \in {Null, LastLaneError, LastProjectError, "Failed"}
    /\ mount.request \in {"fetching", "reading", "done"}
    /\ mount.fallback \in {"armed", "fired", "cleared"}
    /\ mount.abort \in {"armed", "fired", "cleared"}
    /\ mount.elapsed \in Nat
    /\ persist.ref \in Nat
    /\ \A timer \in persist.pending : timer.id \in 1..persist.ref

-----------------------------------------------------------------------------
(* What the claims speak of *)

\* this step is a dispatch of an action of the given type
Dispatched(type) == steps' = steps + 1 /\ now' = now /\ last'.type = type

\* the lanes of the board: project i's lane j
Slots(s) == UNION {{<<i, j>> : j \in 1..Len(s.projects[i].lanes)} :
                      i \in 1..Len(s.projects)}

LaneAt(s, slot) == s.projects[slot[1]].lanes[slot[2]]

\* the lanes whose cardIds list the card
Holders(s, id) == {slot \in Slots(s) : id \in Range(LaneAt(s, slot).cardIds)}

NoDuplicates(seq) == \A i, j \in 1..Len(seq) : seq[i] = seq[j] => i = j

History(s, id) == Get(s.cardVersions, id, <<>>)

Snapshotting == {"UPDATE_CARD", "DELETE_CARD", "MOVE_CARD"}

\* the fields of a card an undo gives back
Observable(card) ==
    [title |-> card.title, description |-> card.description, type |-> card.type,
     priority |-> card.priority, dueDate |-> card.dueDate, labels |-> card.labels,
     assignee |-> card.assignee, laneId |-> card.laneId, order |-> card.order,
     isDeleted |-> card.isDeleted]

\* I1 of a board
I1(s) ==
    \A id \in DOMAIN s.cards :
        ~s.cards[id].isDeleted =>
            \E slot \in Slots(s) :
                /\ Holders(s, id) = {slot}
                /\ LaneAt(s, slot).id = s.cards[id].laneId
                /\ s.projects[slot[1]].id = s.cards[id].projectId

\* I2 of a board
I2(s) ==
    \A slot \in Slots(s) :
        /\ NoDuplicates(LaneAt(s, slot).cardIds)
        /\ \A id \in Range(LaneAt(s, slot).cardIds) :
               /\ id \in DOMAIN s.cards
               /\ s.cards[id].projectId = s.projects[slot[1]].id

-----------------------------------------------------------------------------
(* The claims *)

\* C1: in every state reached by actions that name entities that exist, every
\* card that is not deleted is listed by exactly one lane, the lane of its
\* laneId in the project of its projectId (I1).
C1_I1 == valid => I1(state)

\* C2: in every state reached by card actions on cards that exist, no lane
\* lists a card twice and every card a lane lists belongs to the lane's
\* project (I2).
C2_I2 == valid => I2(state)

C4_DeleteUndone ==
    ( /\ valid
      /\ last.type = "UNDO_CARD"
      /\ last.undoes = "DELETE_CARD"
      /\ last.card.projectId = state.activeProjectId )
    => /\ ~state.cards[last.id].isDeleted
       /\ last.id \in Range(LaneOf(ActiveLanes, state.cards[last.id].laneId).cardIds)
       /\ state.cards[last.id] \in
              Range(getCardsByLane(state, state.cards[last.id].laneId))

\* C5 as claimed: UPDATE_CARD, DELETE_CARD and MOVE_CARD of a card that exists
\* lengthen its history by exactly one; ADD_CARD and RESTORE_CARD leave the
\* length of every history as it was.
C5_Original ==
    [][ /\ \A type \in Snapshotting :
               (Dispatched(type) /\ last'.card # NoCard)
               => Len(History(state', last'.id)) = Len(History(state, last'.id)) + 1
        /\ (Dispatched("ADD_CARD") \/ Dispatched("RESTORE_CARD"))
               => \A id \in DOMAIN state'.cards :
                      Len(History(state', id)) = Len(History(state, id)) ]_vars

\* C5 as amended: UPDATE_CARD, DELETE_CARD and MOVE_CARD of a card that exists,
\* dispatched while the active project exists, lengthen its history by exactly
\* one (without an active project they change nothing); ADD_CARD and
\* RESTORE_CARD leave the length of every history as it was.
C5_VersionCount ==
    [][ /\ \A type \in Snapshotting :
               (Dispatched(type) /\ last'.card # NoCard)
               => IF getActiveProject(state) # NoProject
                  THEN Len(History(state', last'.id))
                           = Len(History(state, last'.id)) + 1
                  ELSE state' = state
        /\ (Dispatched("ADD_CARD") \/ Dispatched("RESTORE_CARD"))
               => \A id \in DOMAIN state'.cards :
                      Len(History(state', id)) = Len(History(state, id)) ]_vars

C5_Witness ==
    /\ last.type \in Snapshotting
    /\ last.card # NoCard
    /\ last.changed
    /\ Len(History(state, last.id)) = 2

\* the card an undo of the given version gives: {id, ...version.data, updatedAt}
Undone_Card(id, version, t) ==
    [id |-> id,
     projectId |-> version.data.projectId,
     title |-> version.data.title,
     description |-> version.data.description,
     type |-> version.data.type,
     priority |-> version.data.priority,
     dueDate |-> version.data.dueDate,
     labels |-> version.data.labels,
     assignee |-> version.data.assignee,
     laneId |-> version.data.laneId,
     order |-> version.data.order,
     isDeleted |-> version.data.isDeleted,
     createdAt |-> version.data.createdAt,
     updatedAt |-> t]

\* what UNDO_CARD does to a card with a history
Pops(id) ==
    LET versions == History(state, id)
    IN  /\ History(state', id) = SubSeq(versions, 1, Len(versions) - 1)
        /\ state'.cards[id] = Undone_Card(id, versions[Len(versions)], now)

C7_OneLane ==
    (valid /\ last.type = "MOVE_CARD" /\ last.card # NoCard)
    => Cardinality(Holders(state, last.id)) = 1

\* C8: DELETE_LANE of the only lane of the active project leaves projects,
\* cards, cardVersions and activeProjectId as they were and sets error to the
\* fixed message.
C8_LastLaneKept ==
    [][ ( /\ Dispatched("DELETE_LANE")
          /\ Len(ActiveLanes) = 1
          /\ ActiveLanes[1].id = last'.id )
        => /\ state'.projects = state.projects
           /\ state'.cards = state.cards
           /\ state'.cardVersions = state.cardVersions
           /\ state'.activeProjectId = state.activeProjectId
           /\ state'.error = LastLaneError ]_vars

C8_Witness ==
    /\ last.type = "DELETE_LANE"
    /\ Len(ActiveLanes) = 1
    /\ ActiveLanes[1].id = last.id
    /\ state.error = LastLaneError

C10_Cascade ==
    [][ ( /\ Dispatched("DELETE_LANE")
          /\ Len(ActiveLanes) > 1
          /\ last'.lane # NoLane )
        => LET L == last'.lane
               old == SelectSeq(ActiveLanes, LAMBDA lane : lane.id # L.id)
               new == getActiveProject(state').lanes
           IN  /\ Len(new) = Len(old)
               /\ \A i \in 1..Len(old) :
                      /\ new[i].id = old[i].id
                      /\ new[i].title = old[i].title
                      /\ new[i].order = i - 1
                      /\ new[i].cardIds = IF i = 1 THEN old[i].cardIds \o L.cardIds
                                          ELSE old[i].cardIds
               /\ \A id \in Range(L.cardIds) \cap DOMAIN state.cards :
                      state'.cards[id].laneId = old[1].id ]_vars

C10_Witness ==
    /\ last.type = "DELETE_LANE"
    /\ last.changed
    /\ Len(last.lane.cardIds) = 2
    /\ Len(ActiveLanes[1].cardIds) = 3
    /\ SubSeq(ActiveLanes[1].cardIds, 2, 3) = last.lane.cardIds

\* the actions that name a card
CardNaming == {"UPDATE_CARD", "DELETE_CARD", "RESTORE_CARD", "MOVE_CARD", "UNDO_CARD"}

\* some project was last touched before now: a refreshed updatedAt would show
Aged(s) == \E i \in 1..Len(s.projects) : s.projects[i].updatedAt < now

\* C11: UPDATE_CARD, DELETE_CARD, RESTORE_CARD, MOVE_CARD and UNDO_CARD that
\* name an id which is no card and has no history return a state equal to the
\* state they were given, in every field.
C11_UnknownCardNoOp ==
    [][ ( /\ \E type \in CardNaming : Dispatched(type)
          /\ last'.id \notin DOMAIN state.cards
          /\ History(state, last'.id) = <<>> )
        => state' = state ]_vars

C11_Witness ==
    /\ last.type \in CardNaming
    /\ last.id = BogusCard
    /\ last.id \notin DOMAIN state.cards
    /\ DOMAIN state.cards # {}
    /\ Aged(state)

\* C12: ADD_CARD with a laneId, MOVE_CARD with a toLaneId, REORDER_CARDS with a
\* laneId and UPDATE_LANE with an id that names no lane of the active project
\* return a state equal to the state they were given, in every field (checked
\* from the states that actions naming existing entities reach).
C12_UnknownLaneNoOp ==
    [][ ( /\ valid
          /\ \/ /\ \/ Dispatched("ADD_CARD")
                   \/ Dispatched("REORDER_CARDS")
                   \/ Dispatched("UPDATE_LANE")
                /\ last'.id \notin LaneIdsOf(ActiveLanes)
             \/ /\ Dispatched("MOVE_CARD")
                /\ last'.arg \notin LaneIdsOf(ActiveLanes) )
        => state' = state ]_vars

\* C13: DELETE_LANE that names an id which is no lane of the active project
\* returns the state as it was, error included, however many lanes the active
\* project has (checked from the states that actions naming existing entities
\* reach).
C13_UnknownLaneKept ==
    [][ (valid /\ Dispatched("DELETE_LANE") /\ last'.id \notin LaneIdsOf(ActiveLanes))
        => state' = state ]_vars

\* I3 of a board
I3(s) == \A i \in 1..Len(s.projects) : Len(s.projects[i].lanes) >= 1

I5(s) ==
    \/ s.activeProjectId = NullId
    \/ \E i \in 1..Len(s.projects) : s.projects[i].id = s.activeProjectId

\* C15 as claimed: activeProjectId is null or the id of a project of the list
\* in every state reached by ADD_PROJECT, UPDATE_PROJECT, DELETE_PROJECT and
\* SET_ACTIVE_PROJECT.
C15_Original == I5(state)

\* C15 as amended: no step makes activeProjectId name a project that is not in
\* the list, other than a SET_ACTIVE_PROJECT of an id that names no project;
\* so I5 holds under ADD_PROJECT, UPDATE_PROJECT, DELETE_PROJECT and the
\* SET_ACTIVE_PROJECT that name a project of the list.
C15_I5 ==
    [][ ( /\ I5(state)
          /\ ~ (Dispatched("SET_ACTIVE_PROJECT") /\ last'.id \notin ProjectIds) )
        => I5(state') ]_vars

C15_Witness ==
    /\ last.type = "DELETE_PROJECT"
    /\ last.changed
    /\ last.id \notin ProjectIds
    /\ state.activeProjectId = state.projects[1].id
    /\ last.id > state.activeProjectId

\* the fields of a card, all except id
DataOf(card) == [k \in (DOMAIN card) \ {"id"} |-> card[k]]

\* the version numbers never go down along the histories of a board
NonDecreasing(s) ==
    \A id \in DOMAIN s.cardVersions :
        \A i, j \in 1..Len(s.cardVersions[id]) :
            i < j => s.cardVersions[id][i].version <= s.cardVersions[id][j].version

\* the last entry of the card's history holds the card as the step found it
SnapshotOfBefore(id) ==
    LET versions == History(state', id)
    IN  /\ Len(versions) > 0
        /\ versions[Len(versions)].cardId = id
        /\ versions[Len(versions)].data = DataOf(state.cards[id])

\* C16 as claimed: the version numbers along each card's history never go
\* down, and right after an UPDATE_CARD, DELETE_CARD or MOVE_CARD of a card the
\* last entry of its history holds the card's fields, all except id, as they
\* were just before the action.
C16_Original ==
    [][ /\ NonDecreasing(state)
        /\ NonDecreasing(state')
        /\ \A type \in Snapshotting :
               (Dispatched(type) /\ last'.id \in DOMAIN state.cards)
               => SnapshotOfBefore(last'.id) ]_vars

\* C16 as amended: the version numbers along each card's history never go
\* down, and right after an UPDATE_CARD, DELETE_CARD or MOVE_CARD of a card,
\* dispatched while the active project exists, the last entry of its history
\* holds the card's fields, all except id, as they were just before the action
\* (without an active project the action changes nothing).
C16_I6 ==
    [][ /\ NonDecreasing(state)
        /\ NonDecreasing(state')
        /\ \A type \in Snapshotting :
               (Dispatched(type) /\ last'.id \in DOMAIN state.cards)
               => IF getActiveProject(state) # NoProject
                  THEN SnapshotOfBefore(last'.id)
                  ELSE state' = state ]_vars

C16_Witness ==
    /\ last.type \in Snapshotting
    /\ last.changed
    /\ Len(History(state, last.id)) = 2
    /\ History(state, last.id)[1].version < History(state, last.id)[2].version
    /\ History(state, last.id)[2].data = DataOf(last.card)
    /\ last.card.priority = "urgent"

\* C17: every snapshot a step pushes onto a card's history gets a version
\* number greater than every number a snapshot of that card was given before,
\* however many versions UNDO_CARD has consumed in between.
C17_NumbersGrow ==
    [][ \A id \in DOMAIN state'.cardVersions :
            Len(History(state', id)) > Len(History(state, id))
            => History(state', id)[Len(History(state', id))].version
                   > Get(numbered, id, 0) ]_vars

\* C18: normalizeState of what normalizeState returned equals what it
\* returned, field for field, for every blob of the legacy or current schema.
C18_Idempotent ==
    \A i \in 2..Len(normalizations) : normalizations[i] = normalizations[1]

C18_Witness ==
    /\ Len(normalizations) = 2
    /\ now > 0
    /\ "project" \in DOMAIN savedState
    /\ "lanes" \notin DOMAIN savedState.project
    /\ "cards" \in DOMAIN savedState
    /\ \E id \in DOMAIN savedState.cards : "projectId" \notin DOMAIN savedState.cards[id]
    /\ normalizations[1] # savedState

\* C19: normalizeState returns a BoardState, and never raises, for every blob
\* that has a projects list or a legacy project, whichever of its other fields
\* are absent.
C19_NeverRaises ==
    \A i \in 1..Len(normalizations) : normalizations[i] # Raised

\* C20: the initial load completes. Whatever the storage service does (it
\* returns a board, returns nothing, fails or never answers), a provider that
\* stays mounted eventually has a board with isLoading = false; once the
\* fallback delay has passed the board is loaded, and the fallback timer loads
\* a freshly initialised board.
C20_LoadCompletes ==
    /\ <>(~mount.isActive \/ ~state.isLoading)
    /\ [](mount.isActive /\ mount.elapsed > FALLBACK_MS => ~state.isLoading)
    /\ [][mount.fallback = "armed" /\ mount'.fallback = "fired"
            => state' = freshState]_vars

C20_Witness ==
    /\ mount.isActive
    /\ mount.request = "reading"
    /\ mount.fallback = "fired"
    /\ savedState # NoBlob
    /\ ~state.isLoading
    /\ state.cards = <<>>

\* C21: DELETE_PROJECT(id) of an existing project, where two or more exist,
\* removes that project and keeps the others in order, removes the cards whose
\* projectId is id and their histories, leaves every other card and history as
\* it was, and makes the first remaining project active if the removed one was
\* active, leaving activeProjectId alone otherwise.
C21_DeleteProject ==
    [][ /\ Dispatched("DELETE_PROJECT")
        /\ \E i \in 1..Len(state.projects) : state.projects[i].id = last'.id
        /\ Len(state.projects) >= 2
        => LET id == last'.id
               kept == {c \in DOMAIN state.cards : state.cards[c].projectId # id}
           IN  /\ state'.projects = SelectSeq(state.projects, LAMBDA p : p.id # id)
               /\ Len(state'.projects) = Len(state.projects) - 1
               /\ DOMAIN state'.cards = kept
               /\ \A c \in kept : state'.cards[c] = state.cards[c]
               /\ DOMAIN state'.cardVersions = DOMAIN state.cardVersions \cap kept
               /\ \A c \in DOMAIN state'.cardVersions :
                      state'.cardVersions[c] = state.cardVersions[c]
               /\ state'.activeProjectId =
                      IF state.activeProjectId = id
                      THEN state'.projects[1].id
                      ELSE state.activeProjectId ]_vars

C21_Witness ==
    /\ last.type = "DELETE_PROJECT"
    /\ last.changed
    /\ state.cards # <<>>
    /\ gen.card > Cardinality(DOMAIN state.cards)
    /\ Len(state.projects) = 1

\* C22: every UPDATE_CARD, DELETE_CARD, RESTORE_CARD, MOVE_CARD or UNDO_CARD
\* that changes a card sets the updatedAt of the card and of the project its
\* projectId names to the time of the action, whether that project is the
\* active one or not.
C22_OwnerStamped ==
    [][ /\ valid
        /\ \E type \in {"UPDATE_CARD", "DELETE_CARD", "RESTORE_CARD", "MOVE_CARD",
                        "UNDO_CARD"} : Dispatched(type)
        /\ last'.id \in DOMAIN state.cards
        /\ state'.cards[last'.id] # state.cards[last'.id]
        => /\ state'.cards[last'.id].updatedAt = now
           /\ \A i \in 1..Len(state'.projects) :
                  state'.projects[i].id = state.cards[last'.id].projectId
                      => state'.projects[i].updatedAt = now ]_vars

\* C23: MOVE_CARD(cardId, toLaneId, toIndex) of a card whose lane S and whose
\* destination D are lanes of the active project, with toIndex >= 0, leaves
\* the card with laneId = D, S.cardIds (where S differs from D) as it was
\* without cardId, D.cardIds as it was without cardId and with cardId inserted
\* at min(toIndex, length), and every other lane's cardIds unchanged.
C23_MoveCard ==
    [][ /\ Dispatched("MOVE_CARD")
        /\ last'.id \in DOMAIN state.cards
        /\ state.cards[last'.id].laneId \in LaneIdsOf(ActiveLanes)
        /\ last'.arg \in LaneIdsOf(ActiveLanes)
        /\ last'.at >= 0
        => LET cardId == last'.id
               S == state.cards[cardId].laneId
               D == last'.arg
               after == getActiveProject(state').lanes
               rest == Without(LaneOf(ActiveLanes, D).cardIds, cardId)
               k == IF last'.at < Len(rest) THEN last'.at ELSE Len(rest)
           IN  /\ state'.cards[cardId].laneId = D
               /\ Len(after) = Len(ActiveLanes)
               /\ \A i \in 1..Len(after) :
                      /\ after[i].id = ActiveLanes[i].id
                      /\ after[i].cardIds =
                             IF after[i].id = D
                             THEN SubSeq(rest, 1, k) \o <<cardId>>
                                      \o SubSeq(rest, k + 1, Len(rest))
                             ELSE IF after[i].id = S
                             THEN Without(ActiveLanes[i].cardIds, cardId)
                             ELSE ActiveLanes[i].cardIds ]_vars

C23_Witness ==
    /\ last.type = "MOVE_CARD"
    /\ last.changed
    /\ last.at = 1
    /\ last.card # NoCard
    /\ last.card.laneId # last.arg
    /\ last.card.laneId \in LaneIdsOf(ActiveLanes)
    /\ LaneOf(ActiveLanes, last.arg) # NoLane
    /\ Len(LaneOf(ActiveLanes, last.arg).cardIds) = 2
    /\ LaneOf(ActiveLanes, last.arg).cardIds[2] = last.id

\* C24: MOVE_CARD of a card from lane S to another lane D of the active
\* project, followed at once by UNDO_CARD of the card, gives the card laneId S
\* again, takes its id out of D.cardIds, makes it the last element of
\* S.cardIds, pops exactly the version the move pushed, and leaves the card
\* listed by exactly one lane.
C24_MoveUndone ==
    [][ /\ Dispatched("UNDO_CARD")
        /\ last.type = "MOVE_CARD"
        /\ last'.id = last.id
        /\ last.card # NoCard
        /\ last.card.laneId \in LaneIdsOf(ActiveLanes)
        /\ last.arg \in LaneIdsOf(ActiveLanes)
        /\ last.card.laneId # last.arg
        => LET id == last.id
               S == last.card.laneId
               D == last.arg
               after == getActiveProject(state').lanes
               versions == History(state, id)
           IN  /\ state'.cards[id].laneId = S
               /\ id \notin Range(LaneOf(after, D).cardIds)
               /\ LaneOf(after, S).cardIds =
                      Append(Without(LaneOf(ActiveLanes, S).cardIds, id), id)
               /\ versions # <<>>
               /\ versions[Len(versions)].data = DataOf(last.card)
               /\ History(state', id) = SubSeq(versions, 1, Len(versions) - 1)
               /\ Cardinality(Holders(state', id)) = 1 ]_vars

\* C25: RESTORE_CARD(id) of a soft-deleted card sets isDeleted = false and
\* makes the id the last element of the cardIds of the lane its laneId names,
\* in every reachable state, also after lanes were deleted while the card was
\* soft-deleted; of a card that is not deleted or does not exist it returns the
\* state unchanged. (Checked here for cards of the active project, after
\* actions that named existing entities only.)
C25_Restored ==
    [][ /\ valid
        /\ Dispatched("RESTORE_CARD")
        /\ last'.id \in DOMAIN state.cards
               => state.cards[last'.id].projectId = state.activeProjectId
        => IF last'.id \in DOMAIN state.cards /\ state.cards[last'.id].isDeleted
           THEN /\ ~state'.cards[last'.id].isDeleted
                /\ \E slot \in Slots(state') :
                       LET lane == LaneAt(state', slot)
                       IN  /\ lane.id = state'.cards[last'.id].laneId
                           /\ lane.cardIds # <<>>
                           /\ lane.cardIds[Len(lane.cardIds)] = last'.id
           ELSE state' = state ]_vars

\* C26: ADD_CARD with an active project that exists and a target lane of it
\* adds exactly one card, under an id that was not in cards, with projectId the
\* active project's id and isDeleted = false; the id becomes the last element
\* of the target lane's cardIds, no other lane's cardIds changes and no
\* history is created. When activeProjectId is null or names no project the
\* state is returned unchanged.
C26_AddCard ==
    [][ Dispatched("ADD_CARD")
        => IF getActiveProject(state) = NoProject
           THEN state' = state
           ELSE last'.id \in LaneIdsOf(ActiveLanes)
                => \E cid \in DOMAIN state'.cards \ DOMAIN state.cards :
                       /\ DOMAIN state'.cards = DOMAIN state.cards \cup {cid}
                       /\ \A c \in DOMAIN state.cards : state'.cards[c] = state.cards[c]
                       /\ state'.cards[cid].projectId = state.activeProjectId
                       /\ ~state'.cards[cid].isDeleted
                       /\ state'.cardVersions = state.cardVersions
                       /\ Slots(state') = Slots(state)
                       /\ \A slot \in Slots(state) :
                              /\ LaneAt(state', slot).id = LaneAt(state, slot).id
                              /\ LaneAt(state', slot).cardIds =
                                     IF /\ state.projects[slot[1]].id = state.activeProjectId
                                        /\ LaneAt(state, slot).id = last'.id
                                     THEN Append(LaneAt(state, slot).cardIds, cid)
                                     ELSE LaneAt(state, slot).cardIds ]_vars

C26_Witness ==
    /\ last.type = "ADD_CARD"
    /\ last.changed
    /\ last.id \in LaneIdsOf(ActiveLanes)
    /\ Len(LaneOf(ActiveLanes, last.id).cardIds) = 2
    /\ Len(state.projects) = 2
    /\ \E c \in DOMAIN state.cards : state.cards[c].projectId # state.activeProjectId

\* what the first call of normalizeState returned for the persisted blob
Normalized == normalizations[1]

\* normalizeState was given a blob of the current schema and returned
CurrentNormalized ==
    /\ "projects" \in DOMAIN savedState
    /\ Len(normalizations) >= 1
    /\ Normalized # Raised

\* normalizeState was given a blob of the single-board schema and returned
LegacyNormalized ==
    /\ "projects" \notin DOMAIN savedState
    /\ "project" \in DOMAIN savedState
    /\ Len(normalizations) >= 1
    /\ Normalized # Raised

\* the cards and the histories of the blob, none where the field is absent
RawCards == OrElse(savedState, "cards", <<>>)
RawVersions == OrElse(savedState, "cardVersions", <<>>)

\* every card that had a projectId kept it and every other card has the given one
CardsBackfilled(projectId) ==
    /\ DOMAIN Normalized.cards = DOMAIN RawCards
    /\ \A id \in DOMAIN RawCards :
           Normalized.cards[id].projectId = OrElse(RawCards[id], "projectId", projectId)

\* every snapshot that had a projectId kept it; every other snapshot has the
\* projectId of its card, or the given one where the blob has no such card
VersionsBackfilled(projectId) ==
    /\ DOMAIN Normalized.cardVersions = DOMAIN RawVersions
    /\ \A id \in DOMAIN RawVersions :
           /\ Len(Normalized.cardVersions[id]) = Len(RawVersions[id])
           /\ \A i \in 1..Len(RawVersions[id]) :
                  Normalized.cardVersions[id][i].data.projectId =
                      OrElse(RawVersions[id][i].data, "projectId",
                             IF id \in DOMAIN Normalized.cards
                             THEN Normalized.cards[id].projectId
                             ELSE projectId)

\* every snapshot that had a projectId kept it and every other one has the
\* given one
VersionsGiven(projectId) ==
    /\ DOMAIN Normalized.cardVersions = DOMAIN RawVersions
    /\ \A id \in DOMAIN RawVersions :
           /\ Len(Normalized.cardVersions[id]) = Len(RawVersions[id])
           /\ \A i \in 1..Len(RawVersions[id]) :
                  Normalized.cardVersions[id][i].data.projectId =
                      OrElse(RawVersions[id][i].data, "projectId", projectId)

\* C27: for a blob of the current schema normalizeState sets activeProjectId to
\* the blob's activeProjectId where that names one of its projects, else to
\* the id of the first project, else (no projects) to null; the result
\* satisfies I5.
C27_ActiveResolved ==
    CurrentNormalized
    => LET projects == savedState.projects
           given == OrElse(savedState, "activeProjectId", NullId)
       IN  /\ Normalized.activeProjectId =
                  IF \E i \in 1..Len(projects) : projects[i].id = given THEN given
                  ELSE IF Len(projects) > 0 THEN projects[1].id
                  ELSE NullId
           /\ I5(Normalized)

C27_Witness ==
    /\ CurrentNormalized
    /\ "activeProjectId" \in DOMAIN savedState
    /\ savedState.activeProjectId = BogusProject
    /\ Len(savedState.projects) = 2
    /\ Normalized.activeProjectId = savedState.projects[1].id

\* C28 as claimed: for a blob of the current schema normalizeState gives every
\* card that lacks projectId the resolved active project id, gives every
\* snapshot that lacks projectId that same id, and leaves every projectId that
\* is present unchanged. (Checked here for the blobs that have a project.)
C28_Original ==
    CurrentNormalized /\ savedState.projects # <<>>
    => /\ CardsBackfilled(Normalized.activeProjectId)
       /\ VersionsGiven(Normalized.activeProjectId)

\* C28 as amended: for a blob of the current schema normalizeState leaves
\* every projectId that is present unchanged, gives every card that lacks
\* projectId the resolved active project id (the empty string where the blob
\* has no project), and gives every snapshot that lacks projectId the
\* projectId of its card as normalized, or what a card would be given where
\* the blob holds no card of that id.
C28_Backfill ==
    CurrentNormalized
    => /\ CardsBackfilled(OrEmpty(Normalized.activeProjectId))
       /\ VersionsBackfilled(OrEmpty(Normalized.activeProjectId))

C28_Witness ==
    /\ CurrentNormalized
    /\ Normalized.activeProjectId = ProjectIdOf(1)
    /\ CardIdOf(1) \in DOMAIN RawCards
    /\ "projectId" \in DOMAIN RawCards[CardIdOf(1)]
    /\ RawCards[CardIdOf(1)].projectId = ProjectIdOf(2)
    /\ CardIdOf(1) \in DOMAIN RawVersions
    /\ "projectId" \notin DOMAIN RawVersions[CardIdOf(1)][1].data
    /\ Normalized.cardVersions[CardIdOf(1)][1].data.projectId = ProjectIdOf(2)

\* the single project of the result: the legacy id, the title, else the legacy
\* name, else the default title, and the result's active project
LegacyProject ==
    LET project == savedState.project
    IN  /\ Len(Normalized.projects) = 1
        /\ Normalized.projects[1].id = project.id
        /\ Normalized.projects[1].title =
               OrElse(project, "title", OrElse(project, "name", "Untitled project"))
        /\ Normalized.activeProjectId = project.id

\* C29 as claimed: for a legacy blob normalizeState returns one project with
\* the legacy id, titled by the legacy name where no title is present,
\* activeProjectId that id, and every card and every snapshot with projectId
\* equal to that id.
C29_Original ==
    LegacyNormalized
    => /\ LegacyProject
       /\ \A id \in DOMAIN Normalized.cards :
              Normalized.cards[id].projectId = savedState.project.id
       /\ \A id \in DOMAIN Normalized.cardVersions :
              \A i \in 1..Len(Normalized.cardVersions[id]) :
                  Normalized.cardVersions[id][i].data.projectId = savedState.project.id

\* C29 as amended: for a legacy blob normalizeState returns one project with
\* the legacy id, titled by the legacy name where no title is present,
\* activeProjectId that id; every card that lacks projectId is given that id,
\* every snapshot that lacks projectId is given the projectId of its card as
\* normalized (that id where the blob holds no such card), and a projectId
\* that is present is kept.
C29_Legacy ==
    LegacyNormalized
    => /\ LegacyProject
       /\ CardsBackfilled(savedState.project.id)
       /\ VersionsBackfilled(savedState.project.id)

C29_Witness ==
    /\ LegacyNormalized
    /\ "name" \in DOMAIN savedState.project
    /\ "title" \notin DOMAIN savedState.project
    /\ Normalized.projects[1].title = "Old board"
    /\ CardIdOf(1) \in DOMAIN RawCards
    /\ "projectId" \notin DOMAIN RawCards[CardIdOf(1)]
    /\ Normalized.cards[CardIdOf(1)].projectId = ProjectIdOf(1)
    /\ CardIdOf(2) \in DOMAIN RawVersions
    /\ Normalized.cardVersions[CardIdOf(2)][1].data.projectId = ProjectIdOf(1)

\* C30: the fallback timer is cancelled once a load result arrives: after the
\* effect has dispatched the load result (a saved board, none, or an error) the
\* fallback timer is not set any more, it never fires, and no fallback
\* LOAD_STATE replaces the state.
C30_FallbackCancelled ==
    /\ [](mount.request = "done" => mount.fallback # "armed")
    /\ [][mount.request = "done"
            => mount'.fallback = mount.fallback /\ state' = state]_vars

C30_Witness ==
    /\ mount.isActive
    /\ mount.request = "done"
    /\ mount.fallback = "cleared"
    /\ mount.elapsed > FALLBACK_MS
    /\ savedState # NoBlob
    /\ state.cards # <<>>

\* the state handed to storage.save last
LastIssued == persist.issued[Len(persist.issued)]

\* C31: debounced persistence. At most one save timer is set at any time; a
\* change of the state to a loaded state leaves exactly one timer set, for the
\* new state and a full delay ahead; storage.save is called only with the
\* current state, which is loaded and has been the state for the whole delay.
C31_Debounced ==
    /\ [](Cardinality(persist.pending) <= 1)
    /\ [][(state' # state /\ ~state'.isLoading)
              => persist'.pending = {[id |-> persist'.ref, state |-> state',
                                     due |-> mount.elapsed + SAVE_DELAY_MS]}]_vars
    /\ [][(state' # state /\ state'.isLoading) => persist'.pending = {}]_vars
    /\ [][persist'.issued # persist.issued
              => /\ persist'.issued = Append(persist.issued, state)
                 /\ ~state.isLoading
                 /\ mount.elapsed >= persist.since + SAVE_DELAY_MS]_vars

\* a save was issued, and a later change by the user set the timer anew
C31_Witness ==
    /\ persist.issued # <<>>
    /\ last.type = "ADD_CARD"
    /\ last.changed
    /\ persist.pending # {}
    /\ LastIssued # state

\* storage.save was called, and the last call carried the state as it is now
Saved == persist.issued # <<>> /\ LastIssued = state

\* C32: while the provider stays mounted, a loaded state is followed by a
\* call of storage.save that carries the whole state as it is then; the
\* dispatches of a run are finitely many, so that state is the final one.
C32_EventuallySaved ==
    /\ ~state.isLoading ~> (~mount.isActive \/ Saved)
    /\ [](~mount.isActive \/ state.isLoading \/ Saved \/ persist.pending # {})

\* the user changed the loaded board twice and the state they left was saved
C32_Witness ==
    /\ Saved
    /\ mount.isActive
    /\ steps = MaxEdits
    /\ last.changed
    /\ last.type = "ADD_CARD"

\* the fetch of the facade failed: it rejected, or the response is not OK
FetchFailed == "rejected" \in DOMAIN server.fetched \/ ~ok(server.fetched)

\* C33: the storage facade never raises. storage.load returns null on 204, on
\* a network error, on a status that is not OK and on the request timeout,
\* and otherwise what response.json() gave or null when that failed;
\* storage.save and storage.clear resolve whatever became of the request; no
\* call of the facade changes the in-memory state.
C33_NeverRaises ==
    /\ [](server.returned # Raised)
    /\ [](server.call = "load" /\ (FetchFailed \/ server.fetched.status = 204)
             => server.returned = NoBlob)
    /\ [](server.call = "load" => server.returned \in Bodies \cup {NoBlob})
    /\ [](server.call \in {"save", "clear"} => server.returned = Done)
    /\ [][server'.returned # server.returned => state' = state]_vars

\* a board is persisted, and a load that the service answered with 500, or
\* that the abort timer ended, returned null
C33_Witness ==
    /\ server.row # NoRow
    /\ server.call = "load"
    /\ server.fetched \in {[status |-> 500], Aborted}
    /\ server.returned = NoBlob

\* the board the table holds, NoBlob when it holds no row
Held == IF server.row = NoRow THEN NoBlob ELSE parse(server.row.data)

\* C34: the storage service holds at most one board: the body of the PUT
\* applied last, or nothing when a DELETE was applied since or no PUT ever. A
\* GET that the table serves answers 204 when nothing is held and 200 with
\* exactly the held body otherwise; a PUT or DELETE whose statement ran
\* answers 204, and one that answers 204 ran.
C34_OneBoard ==
    /\ [](Held = server.applied)
    /\ [](server.request = "GET" /\ server.response.status # 500
             => server.response = IF server.applied = NoBlob
                                  THEN [status |-> 204]
                                  ELSE [status |-> 200, body |-> server.applied])
    /\ [](server.request \in {"PUT", "DELETE"}
             => (server.ran <=> server.response.status = 204))
    /\ [][server'.request = "GET" => server'.row = server.row]_vars

\* a GET answered 200 with the body of the PUT applied last
C34_Witness ==
    /\ server.request = "GET"
    /\ server.response.status = 200
    /\ server.response.body = server.applied
    /\ "cardVersions" \in DOMAIN server.applied
    /\ "error" \in DOMAIN server.applied

\* the lanes of the active project that have the id, in list order
LanesNamed(s, laneId) ==
    {slot \in Slots(s) : /\ s.projects[slot[1]].id = s.activeProjectId
                         /\ \A i \in 1..(slot[1] - 1) :
                                s.projects[i].id # s.activeProjectId
                         /\ LaneAt(s, slot).id = laneId}

\* the positions of a lane's cardIds whose card exists, is not deleted and is
\* of the active project
Kept(s, lane) ==
    {i \in 1..Len(lane.cardIds) :
        /\ lane.cardIds[i] \in DOMAIN s.cards
        /\ ~s.cards[lane.cardIds[i]].isDeleted
        /\ s.cards[lane.cardIds[i]].projectId = s.activeProjectId}

\* the cards at those positions, in the order of the positions
KeptCards(s, lane) ==
    [k \in 1..Cardinality(Kept(s, lane)) |->
        s.cards[lane.cardIds[CHOOSE i \in Kept(s, lane) :
                                 Cardinality({j \in Kept(s, lane) : j <= i}) = k]]]

\* every lane id a board names, and one it does not
LaneIdsNamed(s) == {LaneAt(s, slot).id : slot \in Slots(s)} \cup {BogusLane}

\* every card id a board names, and one it does not
CardIdsNamed(s) == DOMAIN s.cards \cup DOMAIN s.cardVersions \cup {BogusCard}

\* C35: getCardsByLane(laneId) returns the cards that the cardIds of the
\* active project's lane list, in that order, leaving out the ids of no card,
\* the deleted cards and the cards of another project, and the empty list
\* for a lane that is not of the active project; canUndoCard(cardId) is true
\* exactly when cardVersions holds a non-empty list for the card.
C35_Helpers ==
    /\ \A laneId \in LaneIdsNamed(state) :
           getCardsByLane(state, laneId) =
               IF LanesNamed(state, laneId) = {} THEN <<>>
               ELSE KeptCards(state,
                              LaneAt(state, CHOOSE slot \in LanesNamed(state, laneId) :
                                         \A other \in LanesNamed(state, laneId) :
                                             slot[2] <= other[2]))
    /\ \A cardId \in CardIdsNamed(state) :
           canUndoCard(state, cardId) <=>
               (cardId \in DOMAIN state.cardVersions /\ state.cardVersions[cardId] # <<>>)

\* a lane on display lists two cards, of which getCardsByLane returns one, and
\* a lane of the other project lists a card and displays none; a card has a
\* history
C35_Witness ==
    /\ \E laneId \in LaneIdsOf(ActiveLanes) :
           /\ Len(LaneOf(ActiveLanes, laneId).cardIds) = 2
           /\ Len(getCardsByLane(state, laneId)) = 1
    /\ \E slot \in Slots(state) :
           /\ state.projects[slot[1]].id # state.activeProjectId
           /\ LaneAt(state, slot).cardIds # <<>>
           /\ getCardsByLane(state, LaneAt(state, slot).id) = <<>>
    /\ \E cardId \in DOMAIN state.cards : canUndoCard(state, cardId)

\* the ids of the projects of a board
ProjectIdsOf(board) == {board.projects[i].id : i \in 1..Len(board.projects)}

\* C36: a board that was persisted at mount time is not overwritten by a
\* freshly initialised one: every state handed to storage.save holds the
\* projects of the persisted board.
C36_NeverFresh ==
    savedState = Persisted =>
        \A i \in 1..Len(persist.issued) :
            ProjectIdsOf(Persisted) \subseteq ProjectIdsOf(persist.issued[i])

\* the load effect replaces a loaded state that the user changed
LateLoad ==
    /\ ~state.isLoading
    /\ last.type = "ADD_CARD"
    /\ last.changed
    /\ last'.type = "LOAD_STATE"
    /\ state' # state

\* C37: once the board has left the loading state and the user has
\* dispatched an action, the load effect never replaces the state.
C37_OneLoad == [][~LateLoad]_vars

\* the lane a card names is a lane of the card's project
LaneKnown(s, card) ==
    \E slot \in Slots(s) :
        /\ s.projects[slot[1]].id = card.projectId
        /\ LaneAt(s, slot).id = card.laneId

\* every card that is not deleted names a lane of its project
LanesKnown(s) ==
    \A id \in DOMAIN s.cards : ~s.cards[id].isDeleted => LaneKnown(s, s.cards[id])

\* C38: UNDO_CARD never leaves a card pointing at a lane that no longer
\* exists: on a board whose cards all name lanes of their projects, after an
\* UNDO_CARD of a card that exists they still do.
C38_LaneExists ==
    [][(Dispatched("UNDO_CARD") /\ valid' /\ LanesKnown(state))
          => LanesKnown(state')]_vars

CardActions ==
    {"ADD_CARD", "UPDATE_CARD", "DELETE_CARD", "RESTORE_CARD", "MOVE_CARD",
     "REORDER_CARDS", "UNDO_CARD"}

LaneActions == {"ADD_LANE", "UPDATE_LANE", "DELETE_LANE", "REORDER_LANES"}

\* the places in the project list of the projects that are not the active one
Inactive(s) == {i \in 1..Len(s.projects) : s.projects[i].id # s.activeProjectId}

\* C39: project isolation. Every card action and every lane action leaves
\* the project list as long as it was and every project other than the active
\* one as it was, with its lanes, their cardIds and its updatedAt.
C39_Isolation ==
    [][(\E type \in CardActions \cup LaneActions : Dispatched(type))
          => /\ Len(state'.projects) = Len(state.projects)
             /\ state'.activeProjectId = state.activeProjectId
             /\ \A i \in Inactive(state) : state'.projects[i] = state.projects[i]]_vars

\* later than the other project was created, a card action or a lane action
\* changed the board of two projects
C39_Witness ==
    /\ Len(state.projects) = 2
    /\ Inactive(state) # {}
    /\ last.type \in CardActions \cup LaneActions
    /\ last.changed
    /\ getActiveProject(state).updatedAt > 0
    /\ \A i \in Inactive(state) : state.projects[i].updatedAt = 0

\* the order fields of a lane list are 0, 1, ... in list order
InOrder(lanes) == \A i \in 1..Len(lanes) : lanes[i].order = i - 1

\* C40: lane list order and the order field agree. After ADD_PROJECT,
\* ADD_LANE, DELETE_LANE and REORDER_LANES with complete permutations, the
\* order fields of every project's lanes are 0..n-1 in list order, what the
\* board displays (sorted by order) is the lane list, and the cards of a
\* deleted lane are in the leftmost lane on display.
C40_OrderAgrees ==
    /\ [](\A i \in 1..Len(state.projects) :
              /\ InOrder(state.projects[i].lanes)
              /\ sortedLanes(state.projects[i].lanes) = state.projects[i].lanes)
    /\ [][(Dispatched("DELETE_LANE") /\ last'.lane # NoLane
               /\ Len(getActiveProject(state').lanes) < Len(ActiveLanes))
              => \A id \in Range(last'.lane.cardIds) \cap DOMAIN state'.cards :
                     /\ state'.cards[id].laneId =
                            sortedLanes(getActiveProject(state').lanes)[1].id
                     /\ id \in Range(sortedLanes(getActiveProject(state').lanes)[1].cardIds)]_vars

\* the lanes were reordered, and the lane then deleted handed its card to the
\* lane that had become the first
C40_Witness ==
    /\ last.type = "DELETE_LANE"
    /\ last.lane # NoLane
    /\ last.lane.cardIds # <<>>
    /\ last.lane.order = 1
    /\ ActiveLanes[1].cardIds = last.lane.cardIds
    /\ ActiveLanes[1].id # LaneIdOf(1)
    /\ ActiveLanes[1].order = 0

====
